---- MODULE Spec2Model ----
(***************************************************************************)
(* Fleet route optimisation engine: the matrix builders and the cached,    *)
(* rate-limited Matrix Provider (services/maps.py), the Stop Assigner and  *)
(* the Tour Optimizer (services/routing.py) and the pipeline that drives   *)
(* them (main.py).                                                         *)
(*                                                                         *)
(* Python lists are sequences (1-based positions); matrix nodes keep the   *)
(* source's 0-based numbering, node 0 being the depot.                     *)
(***************************************************************************)
EXTENDS Integers, Sequences, FiniteSets, TLC

(***************************************************************************)
(* Generic list helpers (Python built-ins used by the source).             *)
(***************************************************************************)

\* list.pop(idx) leaves the other elements in their relative order.
RemoveAt(s, idx) == [k \in 1..(Len(s) - 1) |-> IF k < idx THEN s[k] ELSE s[k + 1]]

\* s[::-1]
Reverse(s) == [k \in 1..Len(s) |-> s[Len(s) + 1 - k]]

\* Variant of MinIndex: the last position of a least key.
MinIndexLast(keys) ==
    CHOOSE i \in 1..Len(keys) :
        /\ \A j \in 1..Len(keys) : keys[i] <= keys[j]
        /\ \A j \in (i + 1)..Len(keys) : keys[j] > keys[i]

\* Python's min(range(len(keys)), key=...): the FIRST position of a least key.
MinIndex(keys) ==
    CHOOSE i \in 1..Len(keys) :
        /\ \A j \in 1..Len(keys) : keys[i] <= keys[j]
        /\ \A j \in 1..(i - 1) : keys[j] > keys[i]

\* The elements of a sequence.
Range(s) == {s[k] : k \in 1..Len(s)}

(***************************************************************************)
(* Python integers do not overflow; sums of matrix cells can exceed the    *)
(* checker's 32-bit integers as soon as three sentinel cells (10**9 each)  *)
(* are added.  A sum is therefore kept as a two-digit number <<hi, lo>> in *)
(* radix 10**9, standing for hi * 10**9 + lo with 0 <= lo < 10**9.         *)
(***************************************************************************)
Radix == 10 ^ 9

Wide(x) == <<x \div Radix, x % Radix>>

WideAdd(a, b) == <<a[1] + b[1] + ((a[2] + b[2]) \div Radix), (a[2] + b[2]) % Radix>>

WideLess(a, b) == a[1] < b[1] \/ (a[1] = b[1] /\ a[2] < b[2])

WideLeq(a, b) == a = b \/ WideLess(a, b)

\* sum(...) of a sequence of cells
RECURSIVE WideSum(_)
WideSum(s) == IF s = <<>> THEN Wide(0) ELSE WideAdd(Wide(s[1]), WideSum(Tail(s)))

(***************************************************************************)
(* services/routing.py: haversine.                                         *)
(* Coordinates are <<lat, lon>> in whole degrees, taken from GridPoints.   *)
(* HaversineMetres[p][q] is haversine(GridPoints[p], GridPoints[q]) of the *)
(* source, evaluated in double precision and rounded to metres; on these   *)
(* points the rounding keeps every <, = and > between two distances.       *)
(***************************************************************************)
GridPoints == << <<0, 0>>, <<0, 1>>, <<0, 2>>, <<1, 0>>, <<1, 1>>, <<2, 0>> >>

HaversineMetres ==
    << <<     0, 111195, 222390, 111195, 157249, 222390>>,
       <<111195,      0, 111195, 157249, 111195, 248629>>,
       <<222390, 111195,      0, 248629, 157249, 314475>>,
       <<111195, 157249, 248629,      0, 111178, 111195>>,
       <<157249, 111195, 157249, 111178,      0, 157225>>,
       <<222390, 248629, 314475, 111195, 157225,      0>> >>

PointIndex(c) == CHOOSE p \in 1..Len(GridPoints) : GridPoints[p] = c

haversine(coord1, coord2) == HaversineMetres[PointIndex(coord1)][PointIndex(coord2)]

(***************************************************************************)
(* services/routing.py: dynamic_no_crossing_routes.                        *)
(* deliveries_list is list(deliveries_coords.items()): a sequence of       *)
(* <<addr, coord>> with distinct addresses (dict keys).  The result maps   *)
(* vehicle index 0..m-1 to a sequence of addresses.                        *)
(***************************************************************************)

\* m == 1 branch: the while loop of lines 49-53.
RECURSIVE SingleVehicleWalk(_, _, _)
SingleVehicleWalk(current_pos, pool, ordered) ==
    IF pool = <<>> THEN ordered
    ELSE LET idx == MinIndex([i \in 1..Len(pool) |-> haversine(current_pos, pool[i][2])])
         IN  SingleVehicleWalk(pool[idx][2], RemoveAt(pool, idx),
                               Append(ordered, pool[idx][1]))

\* Variant of TurnVehicle: every pick is made by vehicle 0.
TurnVehicleFirst(turn, m) == 0

\* Line 63: vid = turn % m.
TurnVehicle(turn, m) == turn % m

\* Phase 1 (lines 58-68): vehicles take turns, each picks its nearest remaining stop.
RECURSIVE Phase1(_, _, _, _, _)
Phase1(m, routes, current_pos, pool, turn) ==
    IF pool = <<>> THEN routes
    ELSE LET vid == TurnVehicle(turn, m)
             nearest_idx == MinIndex([i \in 1..Len(pool) |->
                                         haversine(current_pos[vid], pool[i][2])])
         IN  Phase1(m,
                    [routes EXCEPT ![vid] = Append(@, pool[nearest_idx])],
                    [current_pos EXCEPT ![vid] = pool[nearest_idx][2]],
                    RemoveAt(pool, nearest_idx),
                    turn + 1)

\* Lines 71-73: the phase-1 routes laid end to end, vehicle 0 first.
RECURSIVE Flatten(_, _, _)
Flatten(m, routes, vid) ==
    IF vid >= m THEN <<>> ELSE routes[vid] \o Flatten(m, routes, vid + 1)

\* Line 79: min(range(m), key=...) is the lowest vehicle index of a nearest end.
NearestEnd(m, ends, coord) ==
    MinIndex([v \in 1..m |-> haversine(ends[v - 1], coord)]) - 1

\* Phase 2 (lines 75-81): each stop goes to the vehicle whose current end is nearest.
RECURSIVE Phase2(_, _, _, _)
Phase2(m, new_routes, ends, flattened) ==
    IF flattened = <<>> THEN new_routes
    ELSE LET stop == Head(flattened)
             chosen == NearestEnd(m, ends, stop[2])
         IN  Phase2(m,
                    [new_routes EXCEPT ![chosen] = Append(@, stop)],
                    [ends EXCEPT ![chosen] = stop[2]],
                    Tail(flattened))

AddressesOf(lst) == [k \in 1..Len(lst) |-> lst[k][1]]

dynamic_no_crossing_routes(depots_coords, deliveries_list) ==
    LET m == Len(depots_coords)
        depotOf == [vid \in 0..(m - 1) |-> depots_coords[vid + 1]]
        empty == [vid \in 0..(m - 1) |-> <<>>]
    IN  IF m < 1 THEN <<>>
        ELSE IF m = 1
             THEN [vid \in {0} |-> SingleVehicleWalk(depots_coords[1], deliveries_list, <<>>)]
             ELSE LET routes == Phase1(m, empty, depotOf, deliveries_list, 0)
                      new_routes == Phase2(m, empty, depotOf, Flatten(m, routes, 0))
                  IN  [vid \in 0..(m - 1) |-> AddressesOf(new_routes[vid])]


(***************************************************************************)
(* The external distance-matrix capability.                                *)
(* One element of a response carries a status and, when the service        *)
(* supplies them, a distance (metres) and a duration (seconds): <<v>> is   *)
(* {"value": v} and NoValue is a key the element does not contain.         *)
(***************************************************************************)
NoValue == <<>>

OkElement(d, t) == [status |-> "OK", distance |-> <<d>>, duration |-> <<t>>]

NotFoundElement == [status |-> "NOT_FOUND", distance |-> NoValue, duration |-> NoValue]

\* client.distance_matrix(origins, destinations): a row per origin and, in each
\* row, an element per destination.  answers[i][j] is what the service reports
\* for the pair (location i, location j); origins are locations i0..i1-1 and
\* destinations are locations j0..j1-1.
distance_matrix(answers, i0, i1, j0, j1) ==
    [oi \in 1..(i1 - i0) |-> [dj \in 1..(j1 - j0) |-> answers[i0 + oi - 1][j0 + dj - 1]]]

\* range(0, n, tile) as a sequence.
TileStarts(n, tile) == [k \in 1..((n + tile - 1) \div tile) |-> (k - 1) * tile]

\* The (i0, j0) pairs in the order the nested tile loops visit them.
TilePairs(n, tile) ==
    LET starts == TileStarts(n, tile)
        cnt == Len(starts)
    IN  [k \in 1..(cnt * cnt) |-> <<starts[((k - 1) \div cnt) + 1], starts[((k - 1) % cnt) + 1]>>]

Min(a, b) == IF a <= b THEN a ELSE b

\* Whether the response holds an element for cell (i, j) of the tile at (i0, j0).
Covers(resp, i0, j0, i, j) ==
    /\ i - i0 + 1 \in 1..Len(resp)
    /\ j - j0 + 1 \in 1..Len(resp[i - i0 + 1])

(***************************************************************************)
(* services/maps.py: MapsService._build_full_matrix.                       *)
(* A matrix is a function on (0..n-1) x (0..n-1), written m[i][j].         *)
(***************************************************************************)
TILE_SIZE == 10

SENTINEL == 1000000000

\* el.get("distance", {}).get("value", 0), likewise for the duration.
ValueOr(v, default) == IF v = NoValue THEN default ELSE v[1]

\* Variant of MapsDistanceCell: a leg without an "OK" status keeps the 0 of np.zeros.
MapsDistanceCellZero(el, i, j) ==
    IF el.status = "OK" THEN ValueOr(el.distance, 0) ELSE 0

\* Lines 156-162: what one element writes into dm[i, j] and tm[i, j].
MapsDistanceCell(el, i, j) ==
    IF el.status = "OK" THEN ValueOr(el.distance, 0)
    ELSE IF i = j THEN 0 ELSE SENTINEL

MapsDurationCell(el, i, j) ==
    IF el.status = "OK" THEN ValueOr(el.duration, 0)
    ELSE IF i = j THEN 0 ELSE SENTINEL

\* Lines 150-162: the rows/elements loops over one tile's response.
MapsApplyTile(mats, resp, i0, j0, n) ==
    [dm |-> [i \in 0..(n - 1) |-> [j \in 0..(n - 1) |->
                IF Covers(resp, i0, j0, i, j)
                THEN MapsDistanceCell(resp[i - i0 + 1][j - j0 + 1], i, j)
                ELSE mats.dm[i][j]]],
     tm |-> [i \in 0..(n - 1) |-> [j \in 0..(n - 1) |->
                IF Covers(resp, i0, j0, i, j)
                THEN MapsDurationCell(resp[i - i0 + 1][j - j0 + 1], i, j)
                ELSE mats.tm[i][j]]]]

\* Lines 141-149: the tile loops, one external call per tile.
RECURSIVE MapsTileLoop(_, _, _, _)
MapsTileLoop(mats, pairs, answers, n) ==
    IF pairs = <<>> THEN mats
    ELSE LET i0 == Head(pairs)[1]
             j0 == Head(pairs)[2]
             resp == distance_matrix(answers, i0, Min(i0 + TILE_SIZE, n),
                                     j0, Min(j0 + TILE_SIZE, n))
         IN  MapsTileLoop(MapsApplyTile(mats, resp, i0, j0, n), Tail(pairs), answers, n)

\* np.zeros((n, n), dtype=int)
Zeros(n) == [i \in 0..(n - 1) |-> [j \in 0..(n - 1) |-> 0]]

_build_full_matrix(n, answers) ==
    MapsTileLoop([dm |-> Zeros(n), tm |-> Zeros(n)], TilePairs(n, TILE_SIZE), answers, n)

(***************************************************************************)
(* services/routing.py: _distance_time_matrices_gmaps_chunked.             *)
(***************************************************************************)
_TILE == 10

BIG == 1000000000

\* Lines 126-131.
ChunkedDurationCell(el, i, j) ==
    IF el.status = "OK" THEN ValueOr(el.duration, BIG)
    ELSE IF i = j THEN 0 ELSE BIG

ChunkedDistanceCell(el, i, j) ==
    IF el.status = "OK" THEN ValueOr(el.distance, BIG)
    ELSE IF i = j THEN 0 ELSE BIG

\* Lines 120-131.
ChunkedApplyTile(mats, resp, i0, j0, n) ==
    [dm |-> [i \in 0..(n - 1) |-> [j \in 0..(n - 1) |->
                IF Covers(resp, i0, j0, i, j)
                THEN ChunkedDistanceCell(resp[i - i0 + 1][j - j0 + 1], i, j)
                ELSE mats.dm[i][j]]],
     tm |-> [i \in 0..(n - 1) |-> [j \in 0..(n - 1) |->
                IF Covers(resp, i0, j0, i, j)
                THEN ChunkedDurationCell(resp[i - i0 + 1][j - j0 + 1], i, j)
                ELSE mats.tm[i][j]]]]

\* Lines 109-119.
RECURSIVE ChunkedTileLoop(_, _, _, _)
ChunkedTileLoop(mats, pairs, answers, n) ==
    IF pairs = <<>> THEN mats
    ELSE LET i0 == Head(pairs)[1]
             j0 == Head(pairs)[2]
             resp == distance_matrix(answers, i0, Min(i0 + _TILE, n),
                                     j0, Min(j0 + _TILE, n))
         IN  ChunkedTileLoop(ChunkedApplyTile(mats, resp, i0, j0, n), Tail(pairs), answers, n)

\* Lines 106-107: 0 on the diagonal, BIG elsewhere.
BigOffDiagonal(n) == [i \in 0..(n - 1) |-> [j \in 0..(n - 1) |-> IF i = j THEN 0 ELSE BIG]]

_distance_time_matrices_gmaps_chunked(n, answers) ==
    ChunkedTileLoop([dm |-> BigOffDiagonal(n), tm |-> BigOffDiagonal(n)],
                    TilePairs(n, _TILE), answers, n)

(***************************************************************************)
(* services/routing.py: the Tour Optimizer.                                *)
(* An order is a sequence of nodes such as <<0, a, b, c, 0>>.              *)
(***************************************************************************)

\* Variant of NearestUnvisited: an unvisited node of greatest duration is taken.
FarthestUnvisited(time_matrix, current, unvisited) ==
    CHOOSE nxt \in unvisited :
        \A j \in unvisited : time_matrix[current][nxt] >= time_matrix[current][j]

\* Line 147: min(unvisited, key=...) over a set of small integers visits them in
\* increasing order, so the least node among those of least duration is taken.
NearestUnvisited(time_matrix, current, unvisited) ==
    CHOOSE nxt \in unvisited :
        /\ \A j \in unvisited : time_matrix[current][nxt] <= time_matrix[current][j]
        /\ \A j \in unvisited : j < nxt => time_matrix[current][j] > time_matrix[current][nxt]

\* Lines 146-150.
RECURSIVE NearestNeighborLoop(_, _, _, _)
NearestNeighborLoop(time_matrix, unvisited, order, current) ==
    IF unvisited = {} THEN order
    ELSE LET nxt == NearestUnvisited(time_matrix, current, unvisited)
         IN  NearestNeighborLoop(time_matrix, unvisited \ {nxt}, Append(order, nxt), nxt)

\* n is len(time_matrix).
_nearest_neighbor_order(time_matrix, n) ==
    IF n <= 1 THEN (IF n = 1 THEN <<0, 0>> ELSE <<>>)
    ELSE Append(NearestNeighborLoop(time_matrix, 1..(n - 1), <<0>>, 0), 0)

_route_cost(order, matrix) ==
    WideSum([k \in 1..(Len(order) - 1) |-> matrix[order[k]][order[k + 1]]])

\* Variant of ReverseSegment: the segment reversed is best[i:j+1].
ReverseSegmentThroughJ(best, i, j) ==
    SubSeq(best, 1, i) \o Reverse(SubSeq(best, i + 1, j + 1)) \o SubSeq(best, j + 2, Len(best))

\* Line 178: best[:i] + best[i:j][::-1] + best[j:], i and j being Python positions.
ReverseSegment(best, i, j) ==
    SubSeq(best, 1, i) \o Reverse(SubSeq(best, i + 1, j)) \o SubSeq(best, j + 1, Len(best))

\* Variant of Improves: the comparison the other way round.
ImprovesWhenDearer(new_cost, best_cost) == WideLess(best_cost, new_cost)

\* Line 180: a candidate replaces the best order only when strictly cheaper.
Improves(new_cost, best_cost) == WideLess(new_cost, best_cost)

\* Lines 174-182: the i/j loops of one pass; st is [best, best_cost, improved].
RECURSIVE TwoOptScan(_, _, _, _, _)
TwoOptScan(st, matrix, n, i, j) ==
    IF i > n - 3 THEN st
    ELSE IF j > n - 2 THEN TwoOptScan(st, matrix, n, i + 1, i + 2)
    ELSE IF j = i + 1 THEN TwoOptScan(st, matrix, n, i, j + 1)
    ELSE LET new_order == ReverseSegment(st.best, i, j)
             new_cost == _route_cost(new_order, matrix)
         IN  TwoOptScan(IF Improves(new_cost, st.best_cost)
                        THEN [best |-> new_order, best_cost |-> new_cost, improved |-> TRUE]
                        ELSE st,
                        matrix, n, i, j + 1)

\* One iteration of the loop of line 171.
TwoOptPass(st, matrix) ==
    TwoOptScan([st EXCEPT !.improved = FALSE], matrix, Len(st.best), 1, 2)

\* Lines 171-184: passes until one finds no improvement or max_passes are done.
RECURSIVE TwoOptLoop(_, _, _)
TwoOptLoop(st, matrix, passes_left) ==
    IF passes_left = 0 THEN st
    ELSE LET after == TwoOptPass(st, matrix)
         IN  IF after.improved THEN TwoOptLoop(after, matrix, passes_left - 1) ELSE after

\* Lines 165-166.
TwoOptStart(order, matrix) ==
    [best |-> order, best_cost |-> _route_cost(order, matrix), improved |-> FALSE]

_two_opt(order, matrix, max_passes) ==
    IF Len(order) < 5 THEN order
    ELSE TwoOptLoop(TwoOptStart(order, matrix), matrix, max_passes).best

\* max_passes=25 at the call of line 210.
REORDER_MAX_PASSES == 25

\* Variant of LegAddress: the address of the leg's origin is appended.
LegAddressOfOrigin(locations_, a, b) == locations_[a + 1]

\* Line 221: locations[b], the address a leg arrives at.
LegAddress(locations_, a, b) == locations_[b + 1]

\* Variant of AddLeg: the leg that arrives at the depot is left out of the totals.
AddLegUnlessReturn(acc, a, b, dmat, tmat_) ==
    IF b = 0 THEN acc
    ELSE [acc EXCEPT !.total_dist = WideAdd(@, Wide(dmat[a][b])),
                     !.total_time = WideAdd(@, Wide(tmat_[a][b]))]

\* Lines 217-218: the leg's distance and duration are added to the totals.
AddLeg(acc, a, b, dmat, tmat_) ==
    [acc EXCEPT !.total_dist = WideAdd(@, Wide(dmat[a][b])),
                !.total_time = WideAdd(@, Wide(tmat_[a][b]))]

\* Lines 216-221: walk the legs of the order; acc is [seq, total_dist, total_time].
RECURSIVE LegLoop(_, _, _, _, _, _)
LegLoop(order, k, locations_, dmat, tmat_, acc) ==
    IF k > Len(order) - 1 THEN acc
    ELSE LET a == order[k]
             b == order[k + 1]
             added == AddLeg(acc, a, b, dmat, tmat_)
         IN  IF b = 0 THEN added
             ELSE LegLoop(order, k + 1, locations_, dmat, tmat_,
                          [added EXCEPT !.seq = Append(@, LegAddress(locations_, a, b))])

\* Variant of NoStops: the early return is never taken.
NoStopsNever(stop_addresses) == FALSE

\* Line 198: not stop_addresses
NoStops(stop_addresses) == stop_addresses = <<>>

\* answers is what the service reports for the pairs of [depot_address] + stops.
reorder_vehicle_with_google(depot_address, stop_addresses, answers) ==
    IF NoStops(stop_addresses) THEN [seq |-> <<>>, total_dist |-> Wide(0), total_time |-> Wide(0)]
    ELSE LET locations_ == <<depot_address>> \o stop_addresses
             mats == _distance_time_matrices_gmaps_chunked(Len(locations_), answers)
             order0 == _nearest_neighbor_order(mats.tm, Len(locations_))
             order1 == _two_opt(order0, mats.tm, REORDER_MAX_PASSES)
         IN  LegLoop(order1, 1, locations_, mats.dm, mats.tm,
                     [seq |-> <<>>, total_dist |-> Wide(0), total_time |-> Wide(0)])

(***************************************************************************)
(* State.                                                                  *)
(***************************************************************************)
VARIABLES
    \* the two matrix builders applied to one set of service reports
    mx_n,            \* number of locations
    mx_answers,      \* what the service reports for each pair of locations
    maps_mats,       \* result of MapsService._build_full_matrix, or NoMats
    chunked_mats,    \* result of _distance_time_matrices_gmaps_chunked, or NoMats
    \* one reorder_vehicle_with_google call, step by step
    tour_pc,         \* "idle", "called", "two_opt", "ordered", "returned"
    tour_stops,      \* stop_addresses
    tour_answers,    \* what the service reports for each pair of locations
    tour_mats,       \* [dm, tm] as built by _distance_time_matrices_gmaps_chunked
    nn_order,        \* the order _nearest_neighbor_order returned
    opt,             \* [best, best_cost, improved] of _two_opt
    passes_done,     \* iterations of the pass loop of _two_opt so far
    tour_result,     \* [seq, total_dist, total_time] once returned
    \* main.py generate_routes
    rt_pc,           \* "idle", "loaded", "assigned", "done"
    depot_addrs,     \* list(depots_dict.values())
    delivery_addrs,  \* list(deliveries_dict.values())
    prelim_routes,   \* vehicle index -> addresses, from dynamic_no_crossing_routes
    final_routes,    \* vehicle index -> addresses, after the reorder
    totals,          \* vehicle index -> <<total_m, total_s>>
    rt_next,         \* number of vehicles the reorder loop has handled
    rt_report,       \* what the run put out: the routes saved and the vehicles named as failed
    \* services/maps.py MapsService
    client_online,   \* self.client is a client (USE_REAL_API) rather than None
    force_refresh,   \* FORCE_REFRESH
    cache,           \* the files of cache_dir: key -> payload
    request_count,   \* self.request_count
    last_call,       \* the latest get_distance_time_matrices call and its outcome
    returned,        \* input -> what the latest returning call with that input returned
    \* the limiter wrapped around MapsService._distance_matrix_tile
    lim_pc,          \* "idle", "building", "sleeping"
    tiles_left,      \* tile calls the running matrix build still has to make
    elapsed,         \* time since the limiter's last reset, in ticks, at most the period
    num_calls,       \* the limiter's count of attempts since its last reset
    sleep_left,      \* ticks left of the time.sleep of sleep_and_retry
    call_ages,       \* age in ticks -> number of external calls let through at that age
    builds_started,  \* matrix builds begun so far
    build_outcome,   \* "none", "done", "maps_api_error", "rate_limited"
    \* mapFleet/services/geocoder.py Geocoder within runs of generate_routes
    geo_pc,          \* "idle", "geocoding", "writing", "done", "aborted", "crashed"
    geo_depots,      \* list(depots_dict.values())
    geo_deliveries,  \* list(deliveries_dict.values())
    geo_todo,        \* addresses the run has still to geocode, depots first
    geo_cache,       \* self.cache: <<address, coordinates>> in insertion order
    geo_file,        \* CACHE_FILE on disk: [exists, entries, complete]
    geo_persisted,   \* the entries of the last write that ran to its end
    geo_failed,      \* the addresses the service had zero results for in this run
    geo_output,      \* the routes the run put out, vehicle index -> addresses
    geo_runs,        \* runs begun so far
    \* one build of the full matrices by one of the three builders, call by call
    tl_pc,           \* "idle", "building", "done"
    tl_builder,      \* "maps", "chunked" or "route_manager"
    tl_n,            \* number of locations
    tl_tiles,        \* the (i0, j0) pairs the tile loops have still to visit
    tl_calls,        \* the external calls made so far: [i0, i1, j0, j1]
    tl_mats,         \* [dm, tm] as filled in so far
    \* calls of reorder_vehicle_with_google and what they set off
    ro_calls,        \* calls made so far
    ro_clients,      \* googlemaps.Client objects created so far
    ro_ext_calls,    \* gmaps_client.distance_matrix calls made so far
    ro_seen,         \* the (depot, stops) inputs of the calls made so far
    ro_last,         \* the latest call: its input, result and external calls
    \* requesters calling MapsService.get_distance_time_matrices at the same time,
    \* all with the same (deliveries, depots), and the files of its cache key
    cc_pc,           \* requester -> "start", "build", "write", "returned", "failed"
    cc_loaded,       \* requester -> what its _load_cache found
    cc_tiles,        \* requester -> tile calls its build has still to make
    cc_ext_calls,    \* external tile calls made for the key so far
    cc_files,        \* file number -> the pieces of text the file holds
    cc_tmp,          \* the file at the path <key>.tmp, or 0
    \* one dynamic_no_crossing_routes call with two or more depots, loop round by round
    as_pc,           \* "idle", "phase1", "phase2", "returned"
    as_depots,       \* depots_coords
    as_pool,         \* pool: the <<addr, coord>> not yet picked
    as_routes,       \* routes: vehicle index -> the <<addr, coord>> it picked in phase 1
    as_pos,          \* current_pos: vehicle index -> coordinate
    as_turn,         \* turn
    as_picks,        \* the addresses picked in phase 1, in the order they were picked
    as_flat,         \* the part of flattened the phase-2 loop has still to visit
    as_new_routes,   \* new_routes
    as_ends,         \* ends
    \* one Geocoder object and the geocode_address calls made on it
    gc_cache,        \* self.cache: <<address, coordinates>> in insertion order
    gc_file,         \* the entries CACHE_FILE holds
    gc_ext,          \* address -> self.client.geocode calls made for it
    gc_raised,       \* address -> geocode_address calls for it that raised ValueError
    gc_calls,        \* geocode_address calls made so far
    gc_last,         \* the latest call: its address, how it ended and what it returned
    \* the two tiled builders applied to a response that may lack rows or elements
    sh_n,            \* number of locations, at most one tile
    sh_answers,      \* what the service reports for each pair of locations
    sh_shape,        \* the number of elements in each row of the response
    sh_maps,         \* result of MapsService._build_full_matrix, or NoMats
    sh_chunked,      \* result of _distance_time_matrices_gmaps_chunked, or NoMats
    \* mapFleet/services/route_manager.py: the matrices and _optimize_route
    rm_pc,           \* "idle", "called", "built", "optimized"
    rm_n,            \* len(locations), locations = [depot] + deliveries
    rm_answers,      \* what the service reports for each pair of locations
    rm_mats,         \* [dm, tm] of _build_distance_time_matrices
    rm_trace,        \* the order _two_opt was given and the order after each reversal
    rm_result,       \* [seq, total_dist, total_time] of _optimize_route
    cc_path,         \* the file at the path <key>.json, or 0
    cc_fd,           \* requester -> the file it has open for writing, or 0
    cc_written       \* requester -> pieces of its payload put out so far

matrixVars == <<mx_n, mx_answers, maps_mats, chunked_mats>>

tourVars == <<tour_pc, tour_stops, tour_answers, tour_mats, nn_order, opt,
              passes_done, tour_result>>

routeVars == <<rt_pc, depot_addrs, delivery_addrs, prelim_routes, final_routes, totals,
               rt_next, rt_report>>

mapsVars == <<client_online, force_refresh, cache, request_count, last_call, returned>>

limiterVars == <<lim_pc, tiles_left, elapsed, num_calls, sleep_left, call_ages,
                 builds_started, build_outcome>>

geoVars == <<geo_pc, geo_depots, geo_deliveries, geo_todo, geo_cache, geo_file,
             geo_persisted, geo_failed, geo_output, geo_runs>>

\* The state of the parts added after the first five.
tileVars == <<tl_pc, tl_builder, tl_n, tl_tiles, tl_calls, tl_mats>>

reorderVars == <<ro_calls, ro_clients, ro_ext_calls, ro_seen, ro_last>>

concVars == <<cc_pc, cc_loaded, cc_tiles, cc_ext_calls, cc_files, cc_tmp, cc_path, cc_fd,
              cc_written>>

assignVars == <<as_pc, as_depots, as_pool, as_routes, as_pos, as_turn, as_picks, as_flat,
                as_new_routes, as_ends>>

geocoderVars == <<gc_cache, gc_file, gc_ext, gc_raised, gc_calls, gc_last>>

shortVars == <<sh_n, sh_answers, sh_shape, sh_maps, sh_chunked>>

managerVars == <<rm_pc, rm_n, rm_answers, rm_mats, rm_trace, rm_result>>

lateVars == <<assignVars, geocoderVars, shortVars, managerVars>>

extVars == <<geoVars, tileVars, reorderVars, concVars, lateVars>>

vars == <<matrixVars, tourVars, routeVars, mapsVars, limiterVars, extVars>>

NoMats == [dm |-> <<>>, tm |-> <<>>]

NoOpt == [best |-> <<>>, best_cost |-> Wide(0), improved |-> FALSE]

NoResult == [seq |-> <<>>, total_dist |-> Wide(0), total_time |-> Wide(0)]

MatrixIdle ==
    /\ mx_n = 0
    /\ mx_answers = <<>>
    /\ maps_mats = NoMats
    /\ chunked_mats = NoMats

TourIdle ==
    /\ tour_pc = "idle"
    /\ tour_stops = <<>>
    /\ tour_answers = <<>>
    /\ tour_mats = NoMats
    /\ nn_order = <<>>
    /\ opt = NoOpt
    /\ passes_done = 0
    /\ tour_result = NoResult

RouteIdle ==
    /\ rt_pc = "idle"
    /\ depot_addrs = <<>>
    /\ delivery_addrs = <<>>
    /\ prelim_routes = <<>>
    /\ final_routes = <<>>
    /\ totals = <<>>
    /\ rt_next = 0
    /\ rt_report = [outcome |-> "none"]

NoCall == [outcome |-> "none"]

MapsIdle ==
    /\ client_online = FALSE
    /\ force_refresh = FALSE
    /\ cache = <<>>
    /\ request_count = 0
    /\ last_call = NoCall
    /\ returned = <<>>

LimiterIdle ==
    /\ lim_pc = "idle"
    /\ tiles_left = 0
    /\ elapsed = 0
    /\ num_calls = 0
    /\ sleep_left = 0
    /\ call_ages = <<>>
    /\ builds_started = 0
    /\ build_outcome = "none"

NoFile == [exists |-> FALSE, entries |-> <<>>, complete |-> FALSE]

GeoIdle ==
    /\ geo_pc = "idle"
    /\ geo_depots = <<>>
    /\ geo_deliveries = <<>>
    /\ geo_todo = <<>>
    /\ geo_cache = <<>>
    /\ geo_file = NoFile
    /\ geo_persisted = <<>>
    /\ geo_failed = {}
    /\ geo_output = <<>>
    /\ geo_runs = 0

TilesIdle ==
    /\ tl_pc = "idle"
    /\ tl_builder = "none"
    /\ tl_n = 0
    /\ tl_tiles = <<>>
    /\ tl_calls = <<>>
    /\ tl_mats = NoMats

ReorderIdle ==
    /\ ro_calls = 0
    /\ ro_clients = 0
    /\ ro_ext_calls = 0
    /\ ro_seen = {}
    /\ ro_last = NoCall

ConcIdle ==
    /\ cc_pc = <<>>
    /\ cc_loaded = <<>>
    /\ cc_tiles = <<>>
    /\ cc_ext_calls = 0
    /\ cc_files = <<>>
    /\ cc_tmp = 0
    /\ cc_path = 0
    /\ cc_fd = <<>>
    /\ cc_written = <<>>

AssignIdle ==
    /\ as_pc = "idle"
    /\ as_depots = <<>>
    /\ as_pool = <<>>
    /\ as_routes = <<>>
    /\ as_pos = <<>>
    /\ as_turn = 0
    /\ as_picks = <<>>
    /\ as_flat = <<>>
    /\ as_new_routes = <<>>
    /\ as_ends = <<>>

GeocoderIdle ==
    /\ gc_cache = <<>>
    /\ gc_file = <<>>
    /\ gc_ext = <<>>
    /\ gc_raised = <<>>
    /\ gc_calls = 0
    /\ gc_last = NoCall

ShortIdle ==
    /\ sh_n = 0
    /\ sh_answers = <<>>
    /\ sh_shape = <<>>
    /\ sh_maps = NoMats
    /\ sh_chunked = NoMats

ManagerIdle ==
    /\ rm_pc = "idle"
    /\ rm_n = 0
    /\ rm_answers = <<>>
    /\ rm_mats = NoMats
    /\ rm_trace = <<>>
    /\ rm_result = NoCall

LateIdle == AssignIdle /\ GeocoderIdle /\ ShortIdle /\ ManagerIdle

ExtIdle == GeoIdle /\ TilesIdle /\ ReorderIdle /\ ConcIdle /\ LateIdle

(***************************************************************************)
(* The service's reports used to exercise the code.                        *)
(***************************************************************************)
MaxDuration == 2

\* metres reported for a leg of t seconds
MetresPerSecond == 10

\* An "OK" element that carries neither a distance nor a duration.
BareOkElement == [status |-> "OK", distance |-> NoValue, duration |-> NoValue]

\* What the service may report for any pair, the pair of a location with itself
\* included.
PairElements ==
    {OkElement(0, 0), OkElement(MetresPerSecond * MaxDuration, MaxDuration),
     NotFoundElement, BareOkElement}

(***************************************************************************)
(* The matrix builders, each applied to the reports drawn initially.       *)
(***************************************************************************)
MaxLocations == 2

MatrixInit ==
    /\ mx_n \in 0..MaxLocations
    /\ mx_answers \in [0..(mx_n - 1) -> [0..(mx_n - 1) -> PairElements]]
    /\ maps_mats = NoMats
    /\ chunked_mats = NoMats
    /\ TourIdle
    /\ RouteIdle
    /\ MapsIdle
    /\ LimiterIdle
    /\ ExtIdle

BuildMaps ==
    /\ maps_mats' = _build_full_matrix(mx_n, mx_answers)
    /\ UNCHANGED <<mx_n, mx_answers, chunked_mats, tourVars, routeVars, mapsVars, limiterVars, extVars>>

BuildChunked ==
    /\ mx_n > 0
    /\ chunked_mats' = _distance_time_matrices_gmaps_chunked(mx_n, mx_answers)
    /\ UNCHANGED <<mx_n, mx_answers, maps_mats, tourVars, routeVars, mapsVars, limiterVars, extVars>>

MatrixNext == BuildMaps \/ BuildChunked

SpecMatrix == MatrixInit /\ [][MatrixNext]_vars

(***************************************************************************)
(* reorder_vehicle_with_google, one step per phase of the call.            *)
(***************************************************************************)
MaxTourStops == 3

MaxUnreachable == 1

StopNames == <<"A", "B", "C", "E">>

DepotName == "D"

\* The ordered pairs of distinct locations among n.
Legs(n) == {p \in (0..(n - 1)) \X (0..(n - 1)) : p[1] # p[2]}

\* The reports for n locations: (0 m, 0 s) for a location and itself, "NOT_FOUND"
\* for the unreachable legs, and durations[leg] seconds for every other leg.
AnswersOf(n, durations, unreachable) ==
    [i \in 0..(n - 1) |-> [j \in 0..(n - 1) |->
        IF i = j THEN OkElement(0, 0)
        ELSE IF <<i, j>> \in unreachable THEN NotFoundElement
        ELSE OkElement(MetresPerSecond * durations[<<i, j>>], durations[<<i, j>>])]]

TourInit ==
    /\ \E k \in 1..MaxTourStops :
        \E durations \in [Legs(k + 1) -> 1..MaxDuration] :
            \E unreachable \in {u \in SUBSET Legs(k + 1) : Cardinality(u) <= MaxUnreachable} :
                /\ tour_stops = SubSeq(StopNames, 1, k)
                /\ tour_answers = AnswersOf(k + 1, durations, unreachable)
    /\ tour_pc = "called"
    /\ tour_mats = NoMats
    /\ nn_order = <<>>
    /\ opt = NoOpt
    /\ passes_done = 0
    /\ tour_result = NoResult
    /\ MatrixIdle
    /\ RouteIdle
    /\ MapsIdle
    /\ LimiterIdle
    /\ ExtIdle

\* Lines 204-208 and 165-169: matrices, nearest-neighbor order, start of _two_opt.
TourBegin ==
    /\ tour_pc = "called"
    /\ LET n == Len(tour_stops) + 1
           mats == _distance_time_matrices_gmaps_chunked(n, tour_answers)
           order0 == _nearest_neighbor_order(mats.tm, n)
       IN  /\ tour_mats' = mats
           /\ nn_order' = order0
           /\ opt' = TwoOptStart(order0, mats.tm)
           /\ tour_pc' = IF Len(order0) < 5 THEN "ordered" ELSE "two_opt"
    /\ passes_done' = 0
    /\ UNCHANGED <<tour_stops, tour_answers, tour_result, matrixVars, routeVars, mapsVars,
                   limiterVars, extVars>>

\* Lines 171-184: one pass.
TourPass ==
    /\ tour_pc = "two_opt"
    /\ passes_done < REORDER_MAX_PASSES
    /\ opt' = TwoOptPass(opt, tour_mats.tm)
    /\ passes_done' = passes_done + 1
    /\ tour_pc' = IF opt'.improved /\ passes_done' < REORDER_MAX_PASSES
                  THEN "two_opt" ELSE "ordered"
    /\ UNCHANGED <<tour_stops, tour_answers, tour_mats, nn_order, tour_result, matrixVars,
                   routeVars, mapsVars, limiterVars, extVars>>

\* Lines 212-223.
TourReturn ==
    /\ tour_pc = "ordered"
    /\ tour_result' = LegLoop(opt.best, 1, <<DepotName>> \o tour_stops,
                              tour_mats.dm, tour_mats.tm, NoResult)
    /\ tour_pc' = "returned"
    /\ UNCHANGED <<tour_stops, tour_answers, tour_mats, nn_order, opt, passes_done,
                   matrixVars, routeVars, mapsVars, limiterVars, extVars>>

TourNext == TourBegin \/ TourPass \/ TourReturn

SpecTour == TourInit /\ [][TourNext]_vars

(***************************************************************************)
(* main.py: generate_routes, from the geocoding to the per-vehicle reorder.*)
(***************************************************************************)
MaxDepots == 2

MaxDeliveries == 4

DepotNames == <<"D", "F">>

\* The coordinate the geocoder resolves each address to.
Geocode(addr) ==
    CASE addr = "D" -> <<0, 0>>
      [] addr = "A" -> <<0, 1>>
      [] addr = "B" -> <<0, 2>>
      [] addr = "C" -> <<1, 0>>
      [] addr = "E" -> <<1, 1>>
      [] addr = "F" -> <<2, 0>>

\* mapFleet/services/geocoder.py, bulk_geocode: a dict keyed by address, so each
\* address is kept once, at the place of its first occurrence.
RECURSIVE bulk_geocode(_)
bulk_geocode(addresses) ==
    IF addresses = <<>> THEN <<>>
    ELSE LET before == bulk_geocode(SubSeq(addresses, 1, Len(addresses) - 1))
             addr == addresses[Len(addresses)]
         IN  IF \E k \in 1..Len(before) : before[k][1] = addr
             THEN before
             ELSE Append(before, <<addr, Geocode(addr)>>)

\* list(depots_coords_map.values())
CoordsOf(items) == [k \in 1..Len(items) |-> items[k][2]]

\* How the roads answer, one way for each kind of day.
RoadKinds == {"plain", "one_way", "closed"}

\* The element the service reports for the leg from address o to address d.
RoadElement(kind, o, d) ==
    LET metres == haversine(Geocode(o), Geocode(d))
        seconds == metres \div MetresPerSecond
    IN  IF o = d THEN OkElement(0, 0)
        ELSE CASE kind = "plain" -> OkElement(metres, seconds)
               [] kind = "one_way" ->
                    IF PointIndex(Geocode(o)) < PointIndex(Geocode(d))
                    THEN OkElement(metres, seconds)
                    ELSE OkElement(3 * metres, 3 * seconds)
               [] kind = "closed" ->
                    IF PointIndex(Geocode(o)) + 1 = PointIndex(Geocode(d))
                    THEN NotFoundElement
                    ELSE OkElement(metres, seconds)

RoadAnswers(kind, locations_) ==
    [i \in 0..(Len(locations_) - 1) |-> [j \in 0..(Len(locations_) - 1) |->
        RoadElement(kind, locations_[i + 1], locations_[j + 1])]]

SeqsUpTo(S, lo, hi) == UNION {[1..k -> S] : k \in lo..hi}

RouteInit ==
    /\ rt_pc = "loaded"
    /\ depot_addrs \in SeqsUpTo(Range(DepotNames), 1, MaxDepots)
    /\ delivery_addrs \in SeqsUpTo(Range(StopNames), 1, MaxDeliveries)
    /\ prelim_routes = <<>>
    /\ final_routes = <<>>
    /\ totals = <<>>
    /\ rt_next = 0
    /\ rt_report = NoCall
    /\ MatrixIdle
    /\ TourIdle
    /\ MapsIdle
    /\ LimiterIdle
    /\ ExtIdle

\* main.py lines 236-248.
RouteAssign ==
    /\ rt_pc = "loaded"
    /\ prelim_routes' = dynamic_no_crossing_routes(CoordsOf(bulk_geocode(depot_addrs)),
                                                   bulk_geocode(delivery_addrs))
    /\ rt_pc' = "assigned"
    /\ UNCHANGED <<depot_addrs, delivery_addrs, final_routes, totals, rt_next, rt_report,
                   matrixVars, tourVars, mapsVars, limiterVars, extVars>>

\* main.py lines 277-280: the depot address put in front of each vehicle's stops.
ordered_routes(routes) == [vid \in DOMAIN routes |-> <<depot_addrs[vid + 1]>> \o routes[vid]]

\* main.py lines 259-268: the loop body for the next vehicle index, and lines
\* 277-283 after the last one.
RouteReorder ==
    /\ rt_pc = "assigned"
    /\ rt_next \in DOMAIN prelim_routes
    /\ \E kind \in RoadKinds :
         LET vid == rt_next
             stops == prelim_routes[vid]
             depot_addr == depot_addrs[vid + 1]
             res == reorder_vehicle_with_google(depot_addr, stops,
                        RoadAnswers(kind, <<depot_addr>> \o stops))
         IN  /\ final_routes' = [v \in 0..vid |-> IF v = vid THEN res.seq ELSE final_routes[v]]
             /\ totals' = [v \in 0..vid |->
                             IF v = vid THEN <<res.total_dist, res.total_time>> ELSE totals[v]]
    /\ rt_next' = rt_next + 1
    /\ rt_pc' = IF rt_next' \in DOMAIN prelim_routes THEN "assigned" ELSE "done"
    /\ rt_report' = IF rt_pc' = "done"
                    THEN [outcome |-> "returned", routes |-> ordered_routes(final_routes'),
                          failed |-> {}]
                    ELSE rt_report
    /\ UNCHANGED <<depot_addrs, delivery_addrs, prelim_routes, matrixVars, tourVars, mapsVars,
                   limiterVars, extVars>>

\* main.py lines 262-266: the matrix request of reorder_vehicle_with_google raises
\* for the next vehicle.  Nothing in generate_routes or main catches it: the
\* exception ends the run before any route is saved.
RouteReorderRaises ==
    /\ rt_pc = "assigned"
    /\ rt_next \in DOMAIN prelim_routes
    /\ ~NoStops(prelim_routes[rt_next])
    /\ rt_pc' = "aborted"
    /\ rt_report' = [outcome |-> "exception", routes |-> <<>>, failed |-> {}]
    /\ UNCHANGED <<depot_addrs, delivery_addrs, prelim_routes, final_routes, totals, rt_next,
                   matrixVars, tourVars, mapsVars, limiterVars, extVars>>

RouteNext == RouteAssign \/ RouteReorder \/ RouteReorderRaises

SpecRoute == RouteInit /\ [][RouteNext]_vars

(***************************************************************************)
(* services/maps.py: MapsService.get_distance_time_matrices and its cache. *)
(***************************************************************************)
MaxRequests == 3

\* _key: the JSON text of {"deliveries": ..., "depots": ...} with sorted keys, which
\* differs whenever one of the two lists differs; its md5 digest is taken to differ
\* whenever the text does.
_key(deliveries, depots) == <<"deliveries", deliveries, "depots", depots>>

\* None, for a cache lookup that yields nothing.
None == [none |-> TRUE]

\* Variant of _load_cache: the file is never read.
LoadCacheNever(files, key, refresh) == None

\* Variant of _load_cache: FORCE_REFRESH is not looked at.
LoadCacheWhateverRefresh(files, key, refresh) ==
    IF key \in DOMAIN files THEN files[key] ELSE None

\* _load_cache: the payload of the key's file when it exists and FORCE_REFRESH is off.
_load_cache(files, key, refresh) ==
    IF key \in DOMAIN files /\ ~refresh THEN files[key] ELSE None

\* _save_cache: the key's file is replaced as a whole.
_save_cache(files, key, payload) ==
    [k \in (DOMAIN files) \cup {key} |-> IF k = key THEN payload ELSE files[k]]

\* ndarray.tolist(): a list of rows.
ToList(m, n) == [i \in 1..n |-> [j \in 1..n |-> m[i - 1][j - 1]]]

\* np.array(rows, dtype=int)
FromList(rows) ==
    [i \in 0..(Len(rows) - 1) |-> [j \in 0..(Len(rows[i + 1]) - 1) |-> rows[i + 1][j + 1]]]

\* The inputs offered to get_distance_time_matrices: (deliveries, depots).
MapsInputs == {<<>>, <<"A">>} \X {<<>>, <<"D">>}

\* What the service may report for n locations.
MapsAnswers(n) ==
    {AnswersOf(n, durations, unreachable) :
        durations \in [Legs(n) -> 1..MaxDuration],
        unreachable \in {u \in SUBSET Legs(n) : Cardinality(u) <= MaxUnreachable}}

\* What the latest returning call with the same input returned, if any.
PreviousReturn(input) == IF input \in DOMAIN returned THEN returned[input] ELSE None

MapsInit ==
    /\ client_online \in BOOLEAN
    /\ force_refresh \in BOOLEAN
    /\ cache = <<>>
    /\ request_count = 0
    /\ last_call = NoCall
    /\ returned = <<>>
    /\ MatrixIdle
    /\ TourIdle
    /\ RouteIdle
    /\ LimiterIdle
    /\ ExtIdle

\* Lines 172-178: a cache record exists and is used.
MapsGetCached(deliveries, depots) ==
    LET cached == _load_cache(cache, _key(deliveries, depots), force_refresh)
        result == [dm |-> FromList(cached.distance_matrix),
                   tm |-> FromList(cached.time_matrix),
                   locations |-> cached.locations]
    IN  /\ cached # None
        /\ last_call' = [outcome |-> "returned", deliveries |-> deliveries, depots |-> depots,
                         result |-> result, external_calls |-> 0, fresh |-> FALSE,
                         previous |-> PreviousReturn(<<deliveries, depots>>)]
        /\ returned' = _save_cache(returned, <<deliveries, depots>>, result)
        /\ UNCHANGED <<cache, request_count>>

\* Lines 180-183 with lines 99-102: a tile call without a client raises
\* MapsAPIError, which ends the call before anything is counted or cached.
MapsGetOffline(deliveries, depots) ==
    /\ _load_cache(cache, _key(deliveries, depots), force_refresh) = None
    /\ Len(depots \o deliveries) > 0
    /\ ~client_online
    /\ last_call' = [outcome |-> "raised", deliveries |-> deliveries, depots |-> depots,
                     error |-> "MapsAPIError", external_calls |-> 0, fresh |-> TRUE,
                     previous |-> PreviousReturn(<<deliveries, depots>>)]
    /\ UNCHANGED <<cache, request_count, returned>>

\* Lines 180-191: the matrices are built, one external call per tile, and cached.
MapsGetBuilt(deliveries, depots) ==
    LET key == _key(deliveries, depots)
        locations_ == depots \o deliveries
        n == Len(locations_)
        tile_calls == Len(TilePairs(n, TILE_SIZE))
    IN  /\ _load_cache(cache, key, force_refresh) = None
        /\ n = 0 \/ client_online
        /\ request_count + tile_calls <= MaxRequests
        /\ \E answers \in MapsAnswers(n) :
             LET mats == _build_full_matrix(n, answers)
                 payload == [distance_matrix |-> ToList(mats.dm, n),
                             time_matrix |-> ToList(mats.tm, n),
                             locations |-> locations_]
                 result == [dm |-> mats.dm, tm |-> mats.tm, locations |-> locations_]
             IN  /\ cache' = _save_cache(cache, key, payload)
                 /\ last_call' = [outcome |-> "returned", deliveries |-> deliveries,
                                  depots |-> depots, result |-> result,
                                  external_calls |-> tile_calls, fresh |-> TRUE,
                                  previous |-> PreviousReturn(<<deliveries, depots>>)]
                 /\ returned' = _save_cache(returned, <<deliveries, depots>>, result)
        /\ request_count' = request_count + tile_calls

get_distance_time_matrices ==
    /\ \E input \in MapsInputs :
        \/ MapsGetCached(input[1], input[2])
        \/ MapsGetOffline(input[1], input[2])
        \/ MapsGetBuilt(input[1], input[2])
    /\ UNCHANGED <<client_online, force_refresh, matrixVars, tourVars, routeVars, limiterVars, extVars>>

MapsNext == get_distance_time_matrices

SpecMaps == MapsInit /\ [][MapsNext]_vars

(***************************************************************************)
(* services/maps.py lines 93-112: MapsService._distance_matrix_tile under  *)
(* @sleep_and_retry and @limits(calls=MAX_API_REQUESTS_PER_DAY,            *)
(* period=24 hours).  Time is counted in ticks, TicksPerPeriod to the      *)
(* period.  @limits counts the attempts since its last reset, resets when  *)
(* an attempt finds the period elapsed, and raises RateLimitException with *)
(* the time left of the period once the count exceeds the limit;           *)
(* @sleep_and_retry sleeps for that time and attempts again.               *)
(***************************************************************************)
MAX_API_REQUESTS_PER_DAY == 2

TicksPerPeriod == 3

MaxTiles == 3

MaxBuilds == 2

\* @limits never allows fewer than one call per period.
clamped_calls == IF MAX_API_REQUESTS_PER_DAY < 1 THEN 1 ELSE MAX_API_REQUESTS_PER_DAY

\* Variant of OnRateLimit: the exception is not caught.
OnRateLimitRaise == "raise"

\* @sleep_and_retry: a RateLimitException is caught and slept out.
OnRateLimit == "sleep"

NoCallsYet == [a \in 0..(TicksPerPeriod - 1) |-> 0]

RECURSIVE SumUpTo(_, _)
SumUpTo(f, a) == IF a < 0 THEN 0 ELSE f[a] + SumUpTo(f, a - 1)

\* External calls let through during the last period: those less than
\* TicksPerPeriod ticks old.
CallsInWindow == SumUpTo(call_ages, TicksPerPeriod - 1)

LimiterInit ==
    /\ lim_pc = "idle"
    /\ tiles_left = 0
    /\ elapsed = 0
    /\ num_calls = 0
    /\ sleep_left = 0
    /\ call_ages = NoCallsYet
    /\ builds_started = 0
    /\ build_outcome = "none"
    /\ client_online \in BOOLEAN
    /\ force_refresh = FALSE
    /\ cache = <<>>
    /\ request_count = 0
    /\ last_call = NoCall
    /\ returned = <<>>
    /\ MatrixIdle
    /\ TourIdle
    /\ RouteIdle
    /\ ExtIdle

limiterFrame == <<force_refresh, cache, last_call, returned, matrixVars, tourVars, routeVars,
                  extVars>>

\* _build_full_matrix begins: the tile loops have `tiles` calls to make.
StartBuild ==
    /\ lim_pc = "idle"
    /\ builds_started < MaxBuilds
    /\ \E tiles \in 1..MaxTiles : tiles_left' = tiles
    /\ lim_pc' = "building"
    /\ builds_started' = builds_started + 1
    /\ build_outcome' = "none"
    /\ UNCHANGED <<elapsed, num_calls, sleep_left, call_ages, client_online, request_count,
                   limiterFrame>>

\* One attempt of the wrapped call: the first of a tile, or the one after the sleep.
TileAttempt ==
    /\ lim_pc = "building" \/ (lim_pc = "sleeping" /\ sleep_left = 0)
    /\ LET period_remaining == TicksPerPeriod - elapsed
           reset == period_remaining <= 0
           attempts == (IF reset THEN 0 ELSE num_calls) + 1
       IN  /\ num_calls' = attempts
           /\ elapsed' = IF reset THEN 0 ELSE elapsed
           /\ IF attempts > clamped_calls
              THEN \* RateLimitException(period_remaining)
                   IF OnRateLimit = "sleep"
                   THEN /\ lim_pc' = "sleeping"
                        /\ sleep_left' = period_remaining
                        /\ UNCHANGED <<tiles_left, call_ages, request_count, build_outcome>>
                   ELSE /\ lim_pc' = "idle"
                        /\ build_outcome' = "rate_limited"
                        /\ tiles_left' = 0
                        /\ UNCHANGED <<sleep_left, call_ages, request_count>>
              ELSE IF ~client_online
                   THEN \* lines 99-102
                        /\ lim_pc' = "idle"
                        /\ build_outcome' = "maps_api_error"
                        /\ tiles_left' = 0
                        /\ UNCHANGED <<sleep_left, call_ages, request_count>>
                   ELSE \* lines 103-112
                        /\ request_count' = request_count + 1
                        /\ call_ages' = [call_ages EXCEPT ![0] = @ + 1]
                        /\ tiles_left' = tiles_left - 1
                        /\ lim_pc' = IF tiles_left' = 0 THEN "idle" ELSE "building"
                        /\ build_outcome' = IF tiles_left' = 0 THEN "done" ELSE build_outcome
                        /\ UNCHANGED sleep_left
    /\ UNCHANGED <<builds_started, client_online, limiterFrame>>

\* A tick of time passes.
Tick ==
    /\ elapsed' = Min(elapsed + 1, TicksPerPeriod)
    /\ sleep_left' = IF sleep_left > 0 THEN sleep_left - 1 ELSE 0
    /\ call_ages' = [a \in 0..(TicksPerPeriod - 1) |-> IF a = 0 THEN 0 ELSE call_ages[a - 1]]
    /\ UNCHANGED <<lim_pc, tiles_left, num_calls, builds_started, build_outcome,
                   client_online, request_count, limiterFrame>>

LimiterNext == StartBuild \/ TileAttempt \/ Tick

SpecLimiter == LimiterInit /\ [][LimiterNext]_vars

\* The program runs on and time passes.
SpecLimiterFair == SpecLimiter /\ WF_vars(TileAttempt) /\ WF_vars(Tick)

(***************************************************************************)
(* mapFleet/services/geocoder.py: the Geocoder and its cache file, within  *)
(* runs of main.py generate_routes.  A write of the cache file opens it    *)
(* for writing, which empties it, and then puts out the JSON text piece by *)
(* piece; the process may die between any two of these steps.              *)
(***************************************************************************)
MaxGeoRuns == 2

MaxGeoDeliveries == 2

\* address in self.cache
CacheHas(entries, address) == \E k \in 1..Len(entries) : entries[k][1] = address

\* Geocoder._load_cache: the map of the file when it exists and parses, else {}.
GeoLoadCache(file) == IF file.exists /\ file.complete THEN file.entries ELSE <<>>

\* Variant of OnZeroResults: the address is passed over.
OnZeroResultsSkip == "skip"

\* geocode_address, lines 64-65: zero results raise ValueError.
OnZeroResults == "raise"

\* bulk_geocode as the run sees it: each address once, with what geocode_address
\* returned for it.
RECURSIVE GeoBulkResult(_, _)
GeoBulkResult(entries, addresses) ==
    IF addresses = <<>> THEN <<>>
    ELSE LET before == GeoBulkResult(entries, SubSeq(addresses, 1, Len(addresses) - 1))
             addr == addresses[Len(addresses)]
         IN  IF CacheHas(before, addr) \/ ~CacheHas(entries, addr)
             THEN before
             ELSE Append(before, <<addr, Geocode(addr)>>)

GeoInit ==
    /\ geo_pc = "geocoding"
    /\ geo_depots \in SeqsUpTo(Range(DepotNames), 1, MaxDepots)
    /\ geo_deliveries \in SeqsUpTo(Range(StopNames), 1, MaxGeoDeliveries)
    /\ geo_todo = geo_depots \o geo_deliveries
    /\ geo_cache = <<>>
    /\ geo_file = NoFile
    /\ geo_persisted = <<>>
    /\ geo_failed = {}
    /\ geo_output = <<>>
    /\ geo_runs = 1
    /\ MatrixIdle
    /\ TourIdle
    /\ RouteIdle
    /\ MapsIdle
    /\ LimiterIdle
    /\ TilesIdle
    /\ ReorderIdle
    /\ ConcIdle
    /\ LateIdle

geoFrame == <<matrixVars, tourVars, routeVars, mapsVars, limiterVars, tileVars, reorderVars,
              concVars, lateVars>>

\* geocode_address for the next address of bulk_geocode, up to the opening of the
\* cache file in _save_cache.
geocode_address ==
    /\ geo_pc = "geocoding"
    /\ geo_todo # <<>>
    /\ LET address == Head(geo_todo)
       IN  IF CacheHas(geo_cache, address)
           THEN /\ geo_todo' = Tail(geo_todo)
                /\ UNCHANGED <<geo_pc, geo_cache, geo_file, geo_failed>>
           ELSE \E found \in BOOLEAN :
                  IF ~found
                  THEN /\ geo_failed' = geo_failed \cup {address}
                       /\ IF OnZeroResults = "raise"
                          THEN geo_pc' = "aborted" /\ UNCHANGED geo_todo
                          ELSE geo_todo' = Tail(geo_todo) /\ UNCHANGED geo_pc
                       /\ UNCHANGED <<geo_cache, geo_file>>
                  ELSE /\ geo_cache' = Append(geo_cache, <<address, Geocode(address)>>)
                       /\ geo_file' = [exists |-> TRUE, entries |-> <<>>, complete |-> FALSE]
                       /\ geo_pc' = "writing"
                       /\ UNCHANGED <<geo_todo, geo_failed>>
    /\ UNCHANGED <<geo_depots, geo_deliveries, geo_persisted, geo_output, geo_runs, geoFrame>>

\* _save_cache, line 52: json.dump puts out the next entry of self.cache.
GeoWriteEntry ==
    /\ geo_pc = "writing"
    /\ Len(geo_file.entries) < Len(geo_cache)
    /\ geo_file' = [geo_file EXCEPT !.entries = Append(@, geo_cache[Len(@) + 1])]
    /\ UNCHANGED <<geo_pc, geo_depots, geo_deliveries, geo_todo, geo_cache, geo_persisted,
                   geo_failed, geo_output, geo_runs, geoFrame>>

\* _save_cache, line 52 to the end of the with block, and geocode_address returns.
GeoWriteClose ==
    /\ geo_pc = "writing"
    /\ Len(geo_file.entries) = Len(geo_cache)
    /\ geo_file' = [geo_file EXCEPT !.complete = TRUE]
    /\ geo_persisted' = geo_cache
    /\ geo_todo' = Tail(geo_todo)
    /\ geo_pc' = "geocoding"
    /\ UNCHANGED <<geo_depots, geo_deliveries, geo_cache, geo_failed, geo_output, geo_runs,
                   geoFrame>>

\* The process dies during the write.
GeoCrash ==
    /\ geo_pc = "writing"
    /\ geo_pc' = "crashed"
    /\ UNCHANGED <<geo_depots, geo_deliveries, geo_todo, geo_cache, geo_file, geo_persisted,
                   geo_failed, geo_output, geo_runs, geoFrame>>

\* generate_routes, lines 248-280, once both bulk_geocode calls have returned.
GeoFinish ==
    /\ geo_pc = "geocoding"
    /\ geo_todo = <<>>
    /\ \E kind \in RoadKinds :
         LET prelim == dynamic_no_crossing_routes(
                           CoordsOf(GeoBulkResult(geo_cache, geo_depots)),
                           GeoBulkResult(geo_cache, geo_deliveries))
         IN  geo_output' = [vid \in DOMAIN prelim |->
                 <<geo_depots[vid + 1]>> \o
                     reorder_vehicle_with_google(geo_depots[vid + 1], prelim[vid],
                         RoadAnswers(kind, <<geo_depots[vid + 1]>> \o prelim[vid])).seq]
    /\ geo_pc' = "done"
    /\ UNCHANGED <<geo_depots, geo_deliveries, geo_todo, geo_cache, geo_file, geo_persisted,
                   geo_failed, geo_runs, geoFrame>>

\* The program is run again: Geocoder.__init__ loads the cache file.
GeoRestart ==
    /\ geo_pc \in {"done", "aborted", "crashed"}
    /\ geo_runs < MaxGeoRuns
    /\ geo_cache' = GeoLoadCache(geo_file)
    /\ geo_todo' = geo_depots \o geo_deliveries
    /\ geo_failed' = {}
    /\ geo_output' = <<>>
    /\ geo_pc' = "geocoding"
    /\ geo_runs' = geo_runs + 1
    /\ UNCHANGED <<geo_depots, geo_deliveries, geo_file, geo_persisted, geoFrame>>

GeoNext ==
    \/ geocode_address
    \/ GeoWriteEntry
    \/ GeoWriteClose
    \/ GeoCrash
    \/ GeoFinish
    \/ GeoRestart

SpecGeo == GeoInit /\ [][GeoNext]_vars

(***************************************************************************)
(* The three builders of full matrices, one external call at a time:       *)
(* MapsService._build_full_matrix, _distance_time_matrices_gmaps_chunked   *)
(* and mapFleet/services/route_manager.py _build_distance_time_matrices.   *)
(***************************************************************************)
MaxTileLocations == 21

\* The service's report: each pair of locations has values of its own.
PairTag(n, i, j) == i * n + j + 1

TaggedAnswers(n) ==
    [i \in 0..(n - 1) |-> [j \in 0..(n - 1) |-> OkElement(PairTag(n, i, j), PairTag(n, i, j))]]

\* route_manager.py lines 124-125: dist_m / 1000.0 and dur_s / 60.0, kept as the
\* fraction <<dividend, divisor>>.
Kilometres(dist_m) == <<dist_m, 1000>>

Minutes(dur_s) == <<dur_s, 60>>

\* route_manager.py lines 96-106: one call with every location as origin and as
\* destination.
RouteManagerCall(n) == [i0 |-> 0, i1 |-> n, j0 |-> 0, j1 |-> n]

\* route_manager.py lines 108-125.
_build_distance_time_matrices(n, answers) ==
    LET matrix == distance_matrix(answers, 0, n, 0, n)
        el(i, j) == matrix[i + 1][j + 1]
    IN  [dm |-> [i \in 0..(n - 1) |-> [j \in 0..(n - 1) |->
                    Kilometres(IF el(i, j).status # "OK" THEN 0 ELSE el(i, j).distance[1])]],
         tm |-> [i \in 0..(n - 1) |-> [j \in 0..(n - 1) |->
                    Minutes(IF el(i, j).status # "OK" THEN 0 ELSE el(i, j).duration[1])]]]

TilesInit ==
    /\ tl_pc = "building"
    /\ tl_builder \in {"maps", "chunked", "route_manager"}
    /\ tl_n \in 0..MaxTileLocations
    /\ tl_builder = "route_manager" => tl_n > 0
    /\ tl_tiles = CASE tl_builder = "maps" -> TilePairs(tl_n, TILE_SIZE)
                    [] tl_builder = "chunked" -> TilePairs(tl_n, _TILE)
                    [] OTHER -> <<>>
    /\ tl_calls = <<>>
    /\ tl_mats = CASE tl_builder = "maps" -> [dm |-> Zeros(tl_n), tm |-> Zeros(tl_n)]
                   [] tl_builder = "chunked" ->
                        [dm |-> BigOffDiagonal(tl_n), tm |-> BigOffDiagonal(tl_n)]
                   [] OTHER -> NoMats
    /\ MatrixIdle
    /\ TourIdle
    /\ RouteIdle
    /\ MapsIdle
    /\ LimiterIdle
    /\ GeoIdle
    /\ ReorderIdle
    /\ ConcIdle
    /\ LateIdle

tileFrame == <<tl_builder, tl_n, matrixVars, tourVars, routeVars, mapsVars, limiterVars,
               geoVars, reorderVars, concVars, lateVars>>

\* maps.py lines 141-162: one round of the inner tile loop.
MapsTileCall ==
    /\ tl_pc = "building"
    /\ tl_builder = "maps"
    /\ tl_tiles # <<>>
    /\ LET i0 == Head(tl_tiles)[1]
           j0 == Head(tl_tiles)[2]
           i1 == Min(i0 + TILE_SIZE, tl_n)
           j1 == Min(j0 + TILE_SIZE, tl_n)
           resp == distance_matrix(TaggedAnswers(tl_n), i0, i1, j0, j1)
       IN  /\ tl_calls' = Append(tl_calls, [i0 |-> i0, i1 |-> i1, j0 |-> j0, j1 |-> j1])
           /\ tl_mats' = MapsApplyTile(tl_mats, resp, i0, j0, tl_n)
    /\ tl_tiles' = Tail(tl_tiles)
    /\ UNCHANGED <<tl_pc, tileFrame>>

\* routing.py lines 109-131: one round of the inner tile loop.
ChunkedTileCall ==
    /\ tl_pc = "building"
    /\ tl_builder = "chunked"
    /\ tl_tiles # <<>>
    /\ LET i0 == Head(tl_tiles)[1]
           j0 == Head(tl_tiles)[2]
           i1 == Min(i0 + _TILE, tl_n)
           j1 == Min(j0 + _TILE, tl_n)
           resp == distance_matrix(TaggedAnswers(tl_n), i0, i1, j0, j1)
       IN  /\ tl_calls' = Append(tl_calls, [i0 |-> i0, i1 |-> i1, j0 |-> j0, j1 |-> j1])
           /\ tl_mats' = ChunkedApplyTile(tl_mats, resp, i0, j0, tl_n)
    /\ tl_tiles' = Tail(tl_tiles)
    /\ UNCHANGED <<tl_pc, tileFrame>>

\* The tile loops of maps.py or routing.py are through and the builder returns.
TilesReturn ==
    /\ tl_pc = "building"
    /\ tl_builder \in {"maps", "chunked"}
    /\ tl_tiles = <<>>
    /\ tl_pc' = "done"
    /\ UNCHANGED <<tl_tiles, tl_calls, tl_mats, tileFrame>>

\* route_manager.py lines 85-127: the whole of _build_distance_time_matrices.
RouteManagerBuild ==
    /\ tl_pc = "building"
    /\ tl_builder = "route_manager"
    /\ tl_calls' = Append(tl_calls, RouteManagerCall(tl_n))
    /\ tl_mats' = _build_distance_time_matrices(tl_n, TaggedAnswers(tl_n))
    /\ tl_pc' = "done"
    /\ UNCHANGED <<tl_tiles, tileFrame>>

TilesNext == MapsTileCall \/ ChunkedTileCall \/ TilesReturn \/ RouteManagerBuild

SpecTiles == TilesInit /\ [][TilesNext]_vars

(***************************************************************************)
(* services/routing.py: calls of reorder_vehicle_with_google, one after    *)
(* another, with the client objects and the external calls they set off.   *)
(***************************************************************************)
MaxReorderCalls == 2

MaxReorderStops == 2

\* The stop addresses the calls are made with.
ReorderStopNames == <<"A", "B">>

ReorderInit ==
    /\ ro_calls = 0
    /\ ro_clients = 0
    /\ ro_ext_calls = 0
    /\ ro_seen = {}
    /\ ro_last = NoCall
    /\ MatrixIdle
    /\ TourIdle
    /\ RouteIdle
    /\ MapsIdle
    /\ LimiterIdle
    /\ GeoIdle
    /\ TilesIdle
    /\ ConcIdle
    /\ LateIdle

\* Lines 198-223: one call.  The client is created at line 201, and
\* _distance_time_matrices_gmaps_chunked calls gmaps_client.distance_matrix once
\* for each tile (lines 109-119).
ReorderCall ==
    /\ ro_calls < MaxReorderCalls
    /\ \E stops \in SeqsUpTo(Range(ReorderStopNames), 0, MaxReorderStops), kind \in RoadKinds :
         LET locations_ == <<DepotName>> \o stops
             tile_calls == IF NoStops(stops) THEN 0
                           ELSE Len(TilePairs(Len(locations_), _TILE))
         IN  /\ ro_clients' = IF NoStops(stops) THEN ro_clients ELSE ro_clients + 1
             /\ ro_ext_calls' = ro_ext_calls + tile_calls
             /\ ro_last' = [outcome |-> "returned", depot |-> DepotName, stops |-> stops,
                            result |-> reorder_vehicle_with_google(DepotName, stops,
                                           RoadAnswers(kind, locations_)),
                            ext_calls |-> tile_calls,
                            repeated |-> <<DepotName, stops>> \in ro_seen]
             /\ ro_seen' = ro_seen \cup {<<DepotName, stops>>}
    /\ ro_calls' = ro_calls + 1
    /\ UNCHANGED <<matrixVars, tourVars, routeVars, mapsVars, limiterVars, geoVars, tileVars,
                   concVars, lateVars>>

ReorderNext == ReorderCall

SpecReorder == ReorderInit /\ [][ReorderNext]_vars

(***************************************************************************)
(* services/maps.py: several requesters in MapsService.                    *)
(* get_distance_time_matrices at the same time, with the same deliveries   *)
(* and depots, hence the same cache key, FORCE_REFRESH off and a client.   *)
(* A file holds pieces of text <<writer, k>>: piece k of the payload of    *)
(* that writer, or <<0, 0>> where nothing was written.  The paths          *)
(* <key>.json and <key>.tmp name files; a writer keeps writing, at its own *)
(* position, to the file it opened, whatever happens to the paths.         *)
(***************************************************************************)
MaxRequesters == 3

TilesPerBuild == 1

PiecesPerPayload == 2

Requesters == 1..MaxRequesters

Hole == <<0, 0>>

\* The text is the whole payload of one writer.
WholeRecord(text) ==
    /\ Len(text) = PiecesPerPayload
    /\ \E w \in Requesters : \A k \in 1..PiecesPerPayload : text[k] = <<w, k>>

\* _load_cache, lines 78-84: what json.load makes of the file at <key>.json.
ConcRead ==
    IF cc_path = 0 THEN "miss"
    ELSE IF WholeRecord(cc_files[cc_path]) THEN "whole"
    ELSE IF Len(cc_files[cc_path]) = PiecesPerPayload /\ Hole \notin Range(cc_files[cc_path])
         THEN "mixed"
    ELSE "broken"

\* f.write at position k of a file, by writer w.
WritePiece(text, k, w) ==
    [j \in 1..(IF Len(text) > k THEN Len(text) ELSE k) |->
        IF j = k THEN <<w, k>> ELSE IF j <= Len(text) THEN text[j] ELSE Hole]

ConcInit ==
    /\ cc_pc = [t \in Requesters |-> "start"]
    /\ cc_loaded = [t \in Requesters |-> "none"]
    /\ cc_tiles = [t \in Requesters |-> 0]
    /\ cc_ext_calls = 0
    /\ cc_files = [f \in Requesters |-> <<>>]
    /\ cc_tmp = 0
    /\ cc_path = 0
    /\ cc_fd = [t \in Requesters |-> 0]
    /\ cc_written = [t \in Requesters |-> 0]
    /\ MatrixIdle
    /\ TourIdle
    /\ RouteIdle
    /\ MapsIdle
    /\ LimiterIdle
    /\ GeoIdle
    /\ TilesIdle
    /\ ReorderIdle
    /\ LateIdle

concFrame == <<matrixVars, tourVars, routeVars, mapsVars, limiterVars, geoVars, tileVars,
               reorderVars, lateVars>>

\* Lines 171-180: _load_cache, and the return of what it read if it read a record.
ConcLoad(t) ==
    /\ cc_pc[t] = "start"
    /\ cc_loaded' = [cc_loaded EXCEPT ![t] = ConcRead]
    /\ IF ConcRead \in {"whole", "mixed"}
       THEN /\ cc_pc' = [cc_pc EXCEPT ![t] = "returned"]
            /\ UNCHANGED cc_tiles
       ELSE /\ cc_pc' = [cc_pc EXCEPT ![t] = "build"]
            /\ cc_tiles' = [cc_tiles EXCEPT ![t] = TilesPerBuild]
    /\ UNCHANGED <<cc_ext_calls, cc_files, cc_tmp, cc_path, cc_fd, cc_written, concFrame>>

\* Lines 141-149: one tile call of _build_full_matrix.
ConcTile(t) ==
    /\ cc_pc[t] = "build"
    /\ cc_tiles[t] > 0
    /\ cc_tiles' = [cc_tiles EXCEPT ![t] = @ - 1]
    /\ cc_ext_calls' = cc_ext_calls + 1
    /\ UNCHANGED <<cc_pc, cc_loaded, cc_files, cc_tmp, cc_path, cc_fd, cc_written, concFrame>>

\* _save_cache, line 89: tmp.open("w") empties the file at <key>.tmp, or makes one.
ConcOpen(t) ==
    /\ cc_pc[t] = "build"
    /\ cc_tiles[t] = 0
    /\ LET f == IF cc_tmp # 0 THEN cc_tmp ELSE t
       IN  /\ cc_files' = [cc_files EXCEPT ![f] = <<>>]
           /\ cc_tmp' = f
           /\ cc_fd' = [cc_fd EXCEPT ![t] = f]
    /\ cc_written' = [cc_written EXCEPT ![t] = 0]
    /\ cc_pc' = [cc_pc EXCEPT ![t] = "write"]
    /\ UNCHANGED <<cc_loaded, cc_tiles, cc_ext_calls, cc_path, concFrame>>

\* _save_cache, line 90: json.dump puts out the next piece of the payload.
ConcWrite(t) ==
    /\ cc_pc[t] = "write"
    /\ cc_written[t] < PiecesPerPayload
    /\ cc_files' = [cc_files EXCEPT ![cc_fd[t]] = WritePiece(@, cc_written[t] + 1, t)]
    /\ cc_written' = [cc_written EXCEPT ![t] = @ + 1]
    /\ UNCHANGED <<cc_pc, cc_loaded, cc_tiles, cc_ext_calls, cc_tmp, cc_path, cc_fd, concFrame>>

\* _save_cache, line 91: tmp.replace(p), which raises FileNotFoundError when no
\* file is at <key>.tmp any more; then get_distance_time_matrices returns.
ConcReplace(t) ==
    /\ cc_pc[t] = "write"
    /\ cc_written[t] = PiecesPerPayload
    /\ IF cc_tmp = 0
       THEN /\ cc_pc' = [cc_pc EXCEPT ![t] = "failed"]
            /\ UNCHANGED <<cc_tmp, cc_path>>
       ELSE /\ cc_path' = cc_tmp
            /\ cc_tmp' = 0
            /\ cc_pc' = [cc_pc EXCEPT ![t] = "returned"]
    /\ cc_fd' = [cc_fd EXCEPT ![t] = 0]
    /\ UNCHANGED <<cc_loaded, cc_tiles, cc_ext_calls, cc_files, cc_written, concFrame>>

ConcNext ==
    \E t \in Requesters :
        \/ ConcLoad(t)
        \/ ConcTile(t)
        \/ ConcOpen(t)
        \/ ConcWrite(t)
        \/ ConcReplace(t)

SpecConcurrent == ConcInit /\ [][ConcNext]_vars

(***************************************************************************)
(* services/routing.py: dynamic_no_crossing_routes with two or more        *)
(* depots, one round of its loops at a time (SpecAssign).                  *)
(***************************************************************************)
MaxAssignDepots == 2

MaxAssignStops == 4

\* Every address the geocoder knows.
PlaceNames == DepotNames \o StopNames

\* The sequences over S of lo..hi members, none of them twice.
DistinctSeqs(S, lo, hi) ==
    {q \in SeqsUpTo(S, lo, hi) : \A x, y \in DOMAIN q : x # y => q[x] # q[y]}

\* Lines 38-61: the call, up to the first round of the phase-1 loop.
AssignInit ==
    /\ \E depots \in DistinctSeqs(Range(PlaceNames), 2, MaxAssignDepots),
          deliveries \in DistinctSeqs(Range(StopNames), 1, MaxAssignStops) :
         LET m == Len(depots) IN
         /\ as_depots = CoordsOf(bulk_geocode(depots))
         /\ as_pool = bulk_geocode(deliveries)
         /\ as_routes = [vid \in 0..(m - 1) |-> <<>>]
         /\ as_pos = [vid \in 0..(m - 1) |-> CoordsOf(bulk_geocode(depots))[vid + 1]]
    /\ as_pc = "phase1"
    /\ as_turn = 0
    /\ as_picks = <<>>
    /\ as_flat = <<>>
    /\ as_new_routes = <<>>
    /\ as_ends = <<>>
    /\ MatrixIdle
    /\ TourIdle
    /\ RouteIdle
    /\ MapsIdle
    /\ LimiterIdle
    /\ GeoIdle
    /\ TilesIdle
    /\ ReorderIdle
    /\ ConcIdle
    /\ GeocoderIdle
    /\ ShortIdle
    /\ ManagerIdle

assignFrame == <<as_depots, matrixVars, tourVars, routeVars, mapsVars, limiterVars, geoVars,
                 tileVars, reorderVars, concVars, geocoderVars, shortVars, managerVars>>

\* Lines 62-68: one round of the phase-1 loop.
AssignPick ==
    /\ as_pc = "phase1"
    /\ as_pool # <<>>
    /\ LET m == Len(as_depots)
           vid == TurnVehicle(as_turn, m)
           nearest_idx == MinIndex([i \in 1..Len(as_pool) |->
                                       haversine(as_pos[vid], as_pool[i][2])])
           picked == as_pool[nearest_idx]
       IN  /\ as_pool' = RemoveAt(as_pool, nearest_idx)
           /\ as_routes' = [as_routes EXCEPT ![vid] = Append(@, picked)]
           /\ as_pos' = [as_pos EXCEPT ![vid] = picked[2]]
           /\ as_picks' = Append(as_picks, picked[1])
    /\ as_turn' = as_turn + 1
    /\ UNCHANGED <<as_pc, as_flat, as_new_routes, as_ends, assignFrame>>

\* Lines 62 and 70-76: the phase-1 loop ends, the routes are flattened and the
\* phase-2 state is set up.
AssignFlatten ==
    /\ as_pc = "phase1"
    /\ as_pool = <<>>
    /\ LET m == Len(as_depots)
       IN  /\ as_flat' = Flatten(m, as_routes, 0)
           /\ as_new_routes' = [vid \in 0..(m - 1) |-> <<>>]
           /\ as_ends' = [vid \in 0..(m - 1) |-> as_depots[vid + 1]]
    /\ as_pc' = "phase2"
    /\ UNCHANGED <<as_pool, as_routes, as_pos, as_turn, as_picks, assignFrame>>

\* Lines 77-81: one round of the phase-2 loop.
AssignRebalance ==
    /\ as_pc = "phase2"
    /\ as_flat # <<>>
    /\ LET m == Len(as_depots)
           stop == Head(as_flat)
           chosen == NearestEnd(m, as_ends, stop[2])
       IN  /\ as_new_routes' = [as_new_routes EXCEPT ![chosen] = Append(@, stop)]
           /\ as_ends' = [as_ends EXCEPT ![chosen] = stop[2]]
    /\ as_flat' = Tail(as_flat)
    /\ UNCHANGED <<as_pc, as_pool, as_routes, as_pos, as_turn, as_picks, assignFrame>>

\* Lines 77 and 83-84: the phase-2 loop ends and the routes are returned.
AssignReturn ==
    /\ as_pc = "phase2"
    /\ as_flat = <<>>
    /\ as_pc' = "returned"
    /\ UNCHANGED <<as_pool, as_routes, as_pos, as_turn, as_picks, as_flat, as_new_routes,
                   as_ends, assignFrame>>

AssignNext == AssignPick \/ AssignFlatten \/ AssignRebalance \/ AssignReturn

SpecAssign == AssignInit /\ [][AssignNext]_vars

(***************************************************************************)
(* mapFleet/services/geocoder.py: one Geocoder and the geocode_address     *)
(* calls made on it, whatever the caller does with a ValueError            *)
(* (SpecGeocoder).                                                         *)
(***************************************************************************)
MaxGeocoderCalls == 4

\* Variant of InCache: the cache is never found to hold the address.
InCacheNever(entries, address) == FALSE

\* Line 59: address in self.cache.
InCache(entries, address) == CacheHas(entries, address)

\* Line 60: tuple(self.cache[address]).
CachedCoordinate(entries, address) ==
    entries[CHOOSE k \in 1..Len(entries) : entries[k][1] = address][2]

\* Geocoder.__init__: self.cache is what _load_cache read from the file left by
\* earlier runs.
GeocoderInit ==
    /\ gc_file \in {<<>>, << <<"A", Geocode("A")>> >>}
    /\ gc_cache = gc_file
    /\ gc_ext = [a \in Range(StopNames) |-> 0]
    /\ gc_raised = [a \in Range(StopNames) |-> 0]
    /\ gc_calls = 0
    /\ gc_last = NoCall
    /\ MatrixIdle
    /\ TourIdle
    /\ RouteIdle
    /\ MapsIdle
    /\ LimiterIdle
    /\ GeoIdle
    /\ TilesIdle
    /\ ReorderIdle
    /\ ConcIdle
    /\ AssignIdle
    /\ ShortIdle
    /\ ManagerIdle

\* Line 54: one more call of geocode_address.
GeocoderCalled ==
    /\ gc_calls < MaxGeocoderCalls
    /\ gc_calls' = gc_calls + 1
    /\ UNCHANGED <<matrixVars, tourVars, routeVars, mapsVars, limiterVars, geoVars, tileVars,
                   reorderVars, concVars, assignVars, shortVars, managerVars>>

\* Lines 59-60: a call that finds the address in self.cache.
GeocoderHit(address) ==
    /\ GeocoderCalled
    /\ InCache(gc_cache, address)
    /\ gc_last' = [address |-> address, outcome |-> "hit",
                   result |-> <<CachedCoordinate(gc_cache, address)>>]
    /\ UNCHANGED <<gc_cache, gc_file, gc_ext, gc_raised>>

\* Lines 59 and 62-65: a miss for which the service has zero results.
GeocoderRaise(address) ==
    /\ GeocoderCalled
    /\ ~InCache(gc_cache, address)
    /\ gc_ext' = [gc_ext EXCEPT ![address] = @ + 1]
    /\ gc_raised' = [gc_raised EXCEPT ![address] = @ + 1]
    /\ gc_last' = [address |-> address, outcome |-> "raised", result |-> <<>>]
    /\ UNCHANGED <<gc_cache, gc_file>>

\* Lines 59, 62-63 and 67-75: a miss the service resolves; _save_cache (lines
\* 49-52) writes the whole of self.cache to the file.
GeocoderMiss(address) ==
    /\ GeocoderCalled
    /\ ~InCache(gc_cache, address)
    /\ gc_ext' = [gc_ext EXCEPT ![address] = @ + 1]
    /\ gc_cache' = IF CacheHas(gc_cache, address) THEN gc_cache
                   ELSE Append(gc_cache, <<address, Geocode(address)>>)
    /\ gc_file' = gc_cache'
    /\ gc_last' = [address |-> address, outcome |-> "miss", result |-> <<Geocode(address)>>]
    /\ UNCHANGED gc_raised

GeocoderNext ==
    \E address \in Range(StopNames) :
        \/ GeocoderHit(address)
        \/ GeocoderRaise(address)
        \/ GeocoderMiss(address)

SpecGeocoder == GeocoderInit /\ [][GeocoderNext]_vars

(***************************************************************************)
(* services/maps.py _build_full_matrix and services/routing.py             *)
(* _distance_time_matrices_gmaps_chunked on one tile whose response may    *)
(* lack rows, or elements at the end of a row (SpecShort).                 *)
(***************************************************************************)
MaxShortLocations == 2

SecondsPerLeg == 2

\* The service's report: every leg "OK" with values, but for one pair.
AnswersBut(n, si, sj, el) ==
    [i \in 0..(n - 1) |-> [j \in 0..(n - 1) |->
        IF i = si /\ j = sj THEN el
        ELSE IF i = j THEN OkElement(0, 0)
        ELSE OkElement(MetresPerSecond * SecondsPerLeg, SecondsPerLeg)]]

\* resp.get("rows", []) and row.get("elements", []) of a response that holds
\* shape[oi] elements in row oi and no row beyond Len(shape).
ShortResponse(resp, shape) ==
    [oi \in 1..Len(shape) |-> SubSeq(resp[oi], 1, shape[oi])]

\* maps.py lines 133-164 with at most TILE_SIZE locations: a single tile.
ShortBuildFullMatrix(n, answers, shape) ==
    MapsApplyTile([dm |-> Zeros(n), tm |-> Zeros(n)],
                  ShortResponse(distance_matrix(answers, 0, n, 0, n), shape), 0, 0, n)

\* routing.py lines 105-131 with at most _TILE locations: a single tile.
ShortBuildChunked(n, answers, shape) ==
    ChunkedApplyTile([dm |-> BigOffDiagonal(n), tm |-> BigOffDiagonal(n)],
                     ShortResponse(distance_matrix(answers, 0, n, 0, n), shape), 0, 0, n)

ShortInit ==
    /\ sh_n \in 1..MaxShortLocations
    /\ \E si, sj \in 0..(sh_n - 1), el \in {BareOkElement, NotFoundElement, OkElement(0, 0)} :
          sh_answers = AnswersBut(sh_n, si, sj, el)
    /\ sh_shape \in SeqsUpTo(0..sh_n, 0, sh_n)
    /\ sh_maps = NoMats
    /\ sh_chunked = NoMats
    /\ MatrixIdle
    /\ TourIdle
    /\ RouteIdle
    /\ MapsIdle
    /\ LimiterIdle
    /\ GeoIdle
    /\ TilesIdle
    /\ ReorderIdle
    /\ ConcIdle
    /\ AssignIdle
    /\ GeocoderIdle
    /\ ManagerIdle

shortFrame == <<sh_n, sh_answers, sh_shape, matrixVars, tourVars, routeVars, mapsVars,
                limiterVars, geoVars, tileVars, reorderVars, concVars, assignVars,
                geocoderVars, managerVars>>

ShortMaps ==
    /\ sh_maps = NoMats
    /\ sh_maps' = ShortBuildFullMatrix(sh_n, sh_answers, sh_shape)
    /\ UNCHANGED <<sh_chunked, shortFrame>>

ShortChunked ==
    /\ sh_chunked = NoMats
    /\ sh_chunked' = ShortBuildChunked(sh_n, sh_answers, sh_shape)
    /\ UNCHANGED <<sh_maps, shortFrame>>

ShortNext == ShortMaps \/ ShortChunked

SpecShort == ShortInit /\ [][ShortNext]_vars

(***************************************************************************)
(* mapFleet/services/route_manager.py: _build_distance_time_matrices,      *)
(* _two_opt and _optimize_route (SpecManager).  Kilometres and minutes are *)
(* fractions <<dividend, divisor>>; all distances share one divisor and    *)
(* all durations another.                                                   *)
(***************************************************************************)
MaxManagerStops == 3

MaxLegSeconds == 2

\* Line 167: max_passes=25.
MANAGER_MAX_PASSES == 25

\* The sum of two fractions of one divisor.
FracAdd(x, y) == <<x[1] + y[1], x[2]>>

\* Line 146: new + 1e-6 < current.  Durations are whole seconds over 60, so two
\* different sums lie at least 1/60 apart and the margin of 1e-6 never decides.
LessByMargin(new, current) == new[1] < current[1]

\* Line 147: order[i:j + 1] = reversed(order[i:j + 1]), on positions counted from 0.
ReverseInPlace(order, i, j) ==
    [k \in 1..Len(order) |->
        IF k - 1 \in i..j THEN order[(i + j) - (k - 1) + 1] ELSE order[k]]

\* Lines 142-148: one (i, j) of the scan.  st is [order, improved, trace], trace
\* being the orders the list has held.
ManagerTry(st, tmat, i, j) ==
    LET a == st.order[i]
        b == st.order[i + 1]
        c == st.order[j + 1]
        d == st.order[j + 2]
        current == FracAdd(tmat[a][b], tmat[c][d])
        new == FracAdd(tmat[a][c], tmat[b][d])
    IN  IF LessByMargin(new, current)
        THEN [order |-> ReverseInPlace(st.order, i, j), improved |-> TRUE,
              trace |-> Append(st.trace, ReverseInPlace(st.order, i, j))]
        ELSE st

\* Lines 140-141: for i in range(1, len(order) - 2), for j in range(i + 1, len(order) - 1).
RECURSIVE ManagerScan(_, _, _, _)
ManagerScan(st, tmat, i, j) ==
    IF i > Len(st.order) - 3 THEN st
    ELSE IF j > Len(st.order) - 2 THEN ManagerScan(st, tmat, i + 1, i + 2)
    ELSE ManagerScan(ManagerTry(st, tmat, i, j), tmat, i, j + 1)

\* Lines 137-139: while improved and passes < max_passes.
RECURSIVE ManagerPasses(_, _, _, _)
ManagerPasses(st, tmat, passes, max_passes) ==
    IF ~(st.improved /\ passes < max_passes) THEN st
    ELSE ManagerPasses(ManagerScan([st EXCEPT !.improved = FALSE], tmat, 1, 2),
                       tmat, passes + 1, max_passes)

\* route_manager._two_opt, with the orders it went through.
manager_two_opt(order, tmat, max_passes) ==
    ManagerPasses([order |-> order, improved |-> TRUE, trace |-> <<order>>],
                  tmat, 0, max_passes)

\* Lines 172-177: the legs are added up until the first return to the depot.
RECURSIVE ManagerTotals(_, _, _, _, _)
ManagerTotals(order, k, dmat, tmat, acc) ==
    IF k >= Len(order) THEN acc
    ELSE LET a == order[k]
             b == order[k + 1]
             added == [acc EXCEPT !.total_dist = FracAdd(@, dmat[a][b]),
                                  !.total_time = FracAdd(@, tmat[a][b])]
         IN  IF b = 0 THEN added
             ELSE ManagerTotals(order, k + 1, dmat, tmat,
                                [added EXCEPT !.seq = Append(@, b)])

\* Lines 163-179.
_optimize_route(dmat, tmat, n) ==
    LET order == [k \in 1..(n + 1) |-> IF k = n + 1 THEN 0 ELSE k - 1]
        done == manager_two_opt(order, tmat, MANAGER_MAX_PASSES)
    IN  [result |-> ManagerTotals(done.order, 1, dmat, tmat,
                        [seq |-> <<>>, total_dist |-> Kilometres(0),
                         total_time |-> Minutes(0)]),
         trace |-> done.trace]

\* The pairs of different locations.
OffDiagonal(n) == {p \in (0..(n - 1)) \X (0..(n - 1)) : p[1] # p[2]}

\* The service's report: the leg (i, j) takes seconds[<<i, j>>], and the pair
\* `closed`, if it is a pair of locations, is reported "NOT_FOUND".
LegAnswers(n, seconds, closed) ==
    [i \in 0..(n - 1) |-> [j \in 0..(n - 1) |->
        IF <<i, j>> = closed THEN NotFoundElement
        ELSE IF i = j THEN OkElement(0, 0)
        ELSE OkElement(MetresPerSecond * seconds[<<i, j>>], seconds[<<i, j>>])]]

\* build_route, lines 270-271, about to call _build_distance_time_matrices.
ManagerInit ==
    /\ rm_pc = "called"
    /\ rm_n \in 1..(1 + MaxManagerStops)
    /\ \E seconds \in [OffDiagonal(rm_n) -> 1..MaxLegSeconds],
          closed \in ((0..(rm_n - 1)) \X (0..(rm_n - 1))) \cup {<<rm_n, rm_n>>} :
          rm_answers = LegAnswers(rm_n, seconds, closed)
    /\ rm_mats = NoMats
    /\ rm_trace = <<>>
    /\ rm_result = NoCall
    /\ MatrixIdle
    /\ TourIdle
    /\ RouteIdle
    /\ MapsIdle
    /\ LimiterIdle
    /\ GeoIdle
    /\ TilesIdle
    /\ ReorderIdle
    /\ ConcIdle
    /\ AssignIdle
    /\ GeocoderIdle
    /\ ShortIdle

managerFrame == <<rm_n, rm_answers, matrixVars, tourVars, routeVars, mapsVars, limiterVars,
                  geoVars, tileVars, reorderVars, concVars, assignVars, geocoderVars,
                  shortVars>>

\* Line 270: _build_distance_time_matrices returns.
ManagerBuild ==
    /\ rm_pc = "called"
    /\ rm_mats' = _build_distance_time_matrices(rm_n, rm_answers)
    /\ rm_pc' = "built"
    /\ UNCHANGED <<rm_trace, rm_result, managerFrame>>

\* Line 271: _optimize_route returns.
ManagerOptimize ==
    /\ rm_pc = "built"
    /\ LET out == _optimize_route(rm_mats.dm, rm_mats.tm, rm_n)
       IN  /\ rm_result' = out.result
           /\ rm_trace' = out.trace
    /\ rm_pc' = "optimized"
    /\ UNCHANGED <<rm_mats, managerFrame>>

ManagerNext == ManagerBuild \/ ManagerOptimize

SpecManager == ManagerInit /\ [][ManagerNext]_vars

(***************************************************************************)
(* Properties of the matrix builders (SpecMatrix).                         *)
(***************************************************************************)
MapsBuilt == maps_mats # NoMats

ChunkedBuilt == chunked_mats # NoMats

\* C3: in every matrix pair a builder returns, distance[i][i] = 0 and
\* duration[i][i] = 0 for every index i, whatever the service reports for (i, i).
C3_DiagonalIsZero ==
    /\ MapsBuilt =>
         \A i \in 0..(mx_n - 1) : maps_mats.dm[i][i] = 0 /\ maps_mats.tm[i][i] = 0
    /\ ChunkedBuilt =>
         \A i \in 0..(mx_n - 1) : chunked_mats.dm[i][i] = 0 /\ chunked_mats.tm[i][i] = 0

\* C5: a pair (i, j), i # j, whose element status is not "OK" is stored as 10**9
\* in the distance and in the duration matrix of both builders, never as 0.
C5_NonOkLegIsSentinel ==
    \A i, j \in 0..(mx_n - 1) :
        (i # j /\ mx_answers[i][j].status # "OK") =>
            /\ MapsBuilt => maps_mats.dm[i][j] = 10 ^ 9 /\ maps_mats.tm[i][j] = 10 ^ 9
            /\ ChunkedBuilt =>
                 chunked_mats.dm[i][j] = 10 ^ 9 /\ chunked_mats.tm[i][j] = 10 ^ 9

\* Both builders have run on reports with a "NOT_FOUND" leg.
C5_Witness ==
    /\ MapsBuilt
    /\ ChunkedBuilt
    /\ \E i, j \in 0..(mx_n - 1) : i # j /\ mx_answers[i][j].status = "NOT_FOUND"

(***************************************************************************)
(* Properties of the Tour Optimizer (SpecTour).                            *)
(***************************************************************************)

\* The orderings of stops 1..k, as sequences.
Orderings(k) == {q \in [1..k -> 1..k] : \A x, y \in 1..k : x # y => q[x] # q[y]}

\* The round trip depot -> q[1] -> ... -> q[k] -> depot.
RoundTrip(q) == <<0>> \o q \o <<0>>

\* The stops of a round trip, without the depot at either end.
StopsOf(order) == SubSeq(order, 2, Len(order) - 1)

\* Whether the order goes straight from node a to node b.
HasLeg(order, a, b) == \E k \in 1..(Len(order) - 1) : order[k] = a /\ order[k + 1] = b

TourCost(order) == _route_cost(order, tour_mats.tm)

\* q is strictly shorter than every other round trip over the same stops.
StrictlyShortest(q) ==
    \A r \in Orderings(Len(q)) : r # q => WideLess(TourCost(RoundTrip(q)), TourCost(RoundTrip(r)))

AddressesAt(q) == [k \in 1..Len(q) |-> tour_stops[q[k]]]

\* C2: the round-trip duration of the order _two_opt holds never exceeds that of
\* the nearest-neighbor order it was given, and no pass increases it.
C2_TwoOptNeverWorsens ==
    /\ [](tour_pc \in {"two_opt", "ordered", "returned"} =>
            WideLeq(TourCost(opt.best), TourCost(nn_order)))
    /\ [][tour_pc = "two_opt" => WideLeq(_route_cost(opt'.best, tour_mats.tm),
                                         _route_cost(opt.best, tour_mats.tm))]_vars

\* A call returned an order that 2-opt made strictly shorter than the
\* nearest-neighbor order.
C2_Witness ==
    /\ tour_pc = "returned"
    /\ passes_done >= 1
    /\ WideLess(TourCost(opt.best), TourCost(nn_order))

\* C6 as stated: with three stops, whenever one round trip is strictly shorter than
\* every other, the call returns its stops in that order, and a total duration
\* equal to the sum of its four legs.
C6_ReturnsStrictlyShortest ==
    (tour_pc = "returned" /\ Len(tour_stops) = 3) =>
        \A q \in Orderings(3) :
            StrictlyShortest(q) =>
                /\ tour_result.seq = AddressesAt(q)
                /\ tour_result.total_time = TourCost(RoundTrip(q))

\* C6 as amended: the same, provided the nearest-neighbor order is that round trip
\* or that round trip with its first two stops exchanged.
C6_ReturnsStrictlyShortestNearNN ==
    (tour_pc = "returned" /\ Len(tour_stops) = 3) =>
        \A q \in Orderings(3) :
            (/\ StrictlyShortest(q)
             /\ StopsOf(nn_order) \in {q, <<q[2], q[1], q[3]>>}) =>
                /\ tour_result.seq = AddressesAt(q)
                /\ tour_result.total_time = TourCost(RoundTrip(q))

\* A call on three stops returned the strictly shortest round trip after 2-opt
\* exchanged the first two stops of the nearest-neighbor order.
C6_Witness ==
    /\ tour_pc = "returned"
    /\ Len(tour_stops) = 3
    /\ \E q \in Orderings(3) :
        /\ StrictlyShortest(q)
        /\ StopsOf(nn_order) = <<q[2], q[1], q[3]>>
        /\ tour_result.seq = AddressesAt(q)

\* C7: if the duration cell of the pair of stops (a, b) is the sentinel and some
\* ordering without the leg a -> b has a lower total round-trip duration, the
\* returned order does not go straight from a to b.
C7_AvoidsUnreachableLeg ==
    tour_pc = "returned" =>
        \A a, b \in 1..Len(tour_stops) :
            (/\ a # b
             /\ tour_mats.tm[a][b] = BIG
             /\ \E q \in Orderings(Len(tour_stops)) :
                    /\ ~HasLeg(RoundTrip(q), a, b)
                    /\ WideLess(TourCost(RoundTrip(q)), TourCost(opt.best)))
            => ~HasLeg(opt.best, a, b)

(***************************************************************************)
(* Properties of the pipeline (SpecRoute).                                 *)
(***************************************************************************)

\* The places <<vehicle, position>> of the final routes that hold addr.
PlacesOf(addr) ==
    {pl \in UNION {{<<v, k>> : k \in 1..Len(final_routes[v])} : v \in DOMAIN final_routes} :
        final_routes[pl[1]][pl[2]] = addr}

\* C1: after the assignment and the reorder of every vehicle, each input delivery
\* address is in exactly one vehicle's final list, exactly once, and the final
\* lists hold no other address.
C1_RoutesPartitionDeliveries ==
    rt_pc = "done" =>
        /\ \A addr \in Range(delivery_addrs) : Cardinality(PlacesOf(addr)) = 1
        /\ \A v \in DOMAIN final_routes : Range(final_routes[v]) \subseteq Range(delivery_addrs)

\* Two vehicles, four stops, two of them in each final list.
C1_Witness ==
    /\ rt_pc = "done"
    /\ Cardinality(Range(delivery_addrs)) = 4
    /\ DOMAIN final_routes = {0, 1}
    /\ Len(final_routes[0]) = 2
    /\ Len(final_routes[1]) = 2

\* The position of addr's first occurrence among the input deliveries.
InputPosition(addr) == CHOOSE k \in 1..Len(delivery_addrs) :
    delivery_addrs[k] = addr /\ \A h \in 1..(k - 1) : delivery_addrs[h] # addr

\* L[k] is a remaining stop nearest to the position reached after L[1..k-1], and
\* the first of the nearest ones in input order.
IsNearestNext(L, k, depot_coord) ==
    LET current == IF k = 1 THEN depot_coord ELSE Geocode(L[k - 1])
        remaining == Range(delivery_addrs) \ {L[h] : h \in 1..(k - 1)}
    IN  /\ L[k] \in remaining
        /\ \A r \in remaining :
             \/ haversine(current, Geocode(L[k])) < haversine(current, Geocode(r))
             \/ /\ haversine(current, Geocode(L[k])) = haversine(current, Geocode(r))
                /\ InputPosition(L[k]) <= InputPosition(r)

SingleDepot == Cardinality(Range(depot_addrs)) = 1

\* C8: with a single depot the assignment is {0: L}, L being the nearest-neighbor
\* walk from the depot over all stops (first in input order on ties), every stop
\* once.
C8_SingleDepotIsNearestNeighborWalk ==
    (rt_pc \in {"assigned", "done"} /\ SingleDepot) =>
        /\ DOMAIN prelim_routes = {0}
        /\ Len(prelim_routes[0]) = Cardinality(Range(delivery_addrs))
        /\ \A k \in 1..Len(prelim_routes[0]) :
             IsNearestNext(prelim_routes[0], k, Geocode(depot_addrs[1]))

\* A single depot, at least three stops, and a step of the walk at which two
\* remaining stops were equally near.
C8_Witness ==
    /\ rt_pc = "assigned"
    /\ SingleDepot
    /\ Len(prelim_routes[0]) >= 3
    /\ \E k \in 1..Len(prelim_routes[0]) :
         LET L == prelim_routes[0]
             current == IF k = 1 THEN Geocode(depot_addrs[1]) ELSE Geocode(L[k - 1])
         IN  \E h \in (k + 1)..Len(L) :
                 haversine(current, Geocode(L[h])) = haversine(current, Geocode(L[k]))

(***************************************************************************)
(* Properties of the Matrix Provider's cache (SpecMaps).                   *)
(***************************************************************************)

\* C4: with FORCE_REFRESH off, a call that follows a returning call with identical
\* (deliveries, depots) returns matrices equal cell for cell to those of that call
\* and issues no external distance-matrix call.
C4_RepeatedCallServedFromCache ==
    (/\ last_call.outcome = "returned"
     /\ ~force_refresh
     /\ last_call.previous # None) =>
        /\ last_call.result.dm = last_call.previous.dm
        /\ last_call.result.tm = last_call.previous.tm
        /\ last_call.external_calls = 0

\* A second call for two locations, the first of which went to the service.
C4_Witness ==
    /\ last_call.outcome = "returned"
    /\ ~force_refresh
    /\ last_call.previous # None
    /\ Len(last_call.result.locations) = 2
    /\ request_count >= 1
    /\ last_call.external_calls = 0

(***************************************************************************)
(* Properties of the rate limiter (SpecLimiter, SpecLimiterFair).          *)
(***************************************************************************)

\* C9: in every rolling window of one period (24 hours), at most
\* MAX_API_REQUESTS_PER_DAY external calls are let through.
C9_RollingWindowLimit == CallsInWindow <= MAX_API_REQUESTS_PER_DAY

\* C10: a call made when the limit is reached never surfaces a rate-limit failure;
\* it is blocked, is issued once the period is over, and the matrix build (with a
\* client) completes.
C10_BlockedCallIsIssued ==
    /\ [](build_outcome # "rate_limited")
    /\ (lim_pc = "sleeping") ~> (lim_pc # "sleeping")
    /\ (lim_pc = "building" /\ client_online) ~> (build_outcome = "done")

\* A build has completed after one of its calls was blocked at the limit.
C10_Witness ==
    /\ build_outcome = "done"
    /\ lim_pc = "idle"
    /\ request_count > MAX_API_REQUESTS_PER_DAY
    /\ builds_started = 1

(***************************************************************************)
(* Offline mode of the Matrix Provider (SpecMaps).                         *)
(***************************************************************************)

\* C11: without a client (offline mode), every call that finds no usable cache
\* record fails with MapsAPIError and returns no matrices, the call for the empty
\* location list included.
C11_OfflineFreshCallFails ==
    (/\ ~client_online
     /\ last_call.outcome # "none"
     /\ last_call.fresh) =>
        last_call.outcome = "raised"

(***************************************************************************)
(* Properties of the Geocoder (SpecGeo).                                   *)
(***************************************************************************)

\* C12: when the geocoding service has zero results for an address, geocode_address
\* raises and the run aborts: the run puts out no routes, and the failing call
\* writes no cache entry, in memory or on disk, for the address.
C12_ZeroResultsAbortRun ==
    /\ [](geo_failed # {} =>
            /\ geo_pc = "aborted"
            /\ geo_output = <<>>
            /\ \A a \in geo_failed : ~CacheHas(geo_cache, a))
    /\ [][geo_failed' # geo_failed /\ geo_failed' # {} =>
            /\ geo_cache' = geo_cache
            /\ geo_file' = geo_file]_vars

\* A run was aborted at a delivery address after other addresses had been resolved.
C12_Witness ==
    /\ geo_pc = "aborted"
    /\ geo_cache # <<>>
    /\ \E a \in geo_failed : a \in Range(geo_deliveries)

\* The entries of s are all among those of t.
EntriesWithin(s, t) == \A k \in 1..Len(s) : \E l \in 1..Len(t) : t[l] = s[k]

\* C13: whenever the process may die during a cache write, the file on disk is the
\* complete old map or the complete new map, and a Geocoder created afterwards
\* loads every entry that was persisted before that write.
C13_CrashKeepsPersistedEntries ==
    /\ geo_pc \in {"writing", "crashed"} =>
          /\ geo_file.complete
          /\ geo_file.entries \in {geo_persisted, geo_cache}
    /\ geo_pc \in {"writing", "crashed"} =>
          EntriesWithin(geo_persisted, GeoLoadCache(geo_file))

(***************************************************************************)
(* Properties of the tiling (SpecTiles).                                   *)
(***************************************************************************)

\* The calls made that hold the pair (i, j).
CallsCovering(i, j) ==
    {k \in 1..Len(tl_calls) :
        /\ tl_calls[k].i0 <= i /\ i < tl_calls[k].i1
        /\ tl_calls[k].j0 <= j /\ j < tl_calls[k].j1}

\* Cell (i, j) holds what the service reported for the pair (i, j).
CellHoldsOwnElement(i, j) ==
    IF tl_builder = "route_manager"
    THEN /\ tl_mats.dm[i][j] = Kilometres(PairTag(tl_n, i, j))
         /\ tl_mats.tm[i][j] = Minutes(PairTag(tl_n, i, j))
    ELSE /\ tl_mats.dm[i][j] = PairTag(tl_n, i, j)
         /\ tl_mats.tm[i][j] = PairTag(tl_n, i, j)

\* C14: every external call of a full-matrix build carries at most 10 origins and at
\* most 10 destinations, and once the build is over every pair (i, j) was held by
\* exactly one call and its element was written to cell (i, j); for each of the
\* three builders.
C14_TilesOfTenCoverEachPairOnce ==
    /\ \A k \in 1..Len(tl_calls) :
          /\ tl_calls[k].i1 - tl_calls[k].i0 <= 10
          /\ tl_calls[k].j1 - tl_calls[k].j0 <= 10
    /\ tl_pc = "done" =>
          \A i \in 0..(tl_n - 1), j \in 0..(tl_n - 1) :
              /\ Cardinality(CallsCovering(i, j)) = 1
              /\ CellHoldsOwnElement(i, j)

(***************************************************************************)
(* Properties of what reorder_vehicle_with_google returns (SpecTour).      *)
(***************************************************************************)

\* The node of an address in [depot] + stops.
NodeOf(address) ==
    IF address = DepotName THEN 0
    ELSE CHOOSE k \in 1..Len(tour_stops) : tour_stops[k] = address

\* The full cycle depot -> seq[1] -> ... -> seq[k] -> depot, as nodes.
CycleOf(seq) == <<0>> \o [k \in 1..Len(seq) |-> NodeOf(seq[k])] \o <<0>>

\* C15: the returned stop list holds each input stop address exactly once and never
\* the depot, and the returned totals are the sums of distance and of duration over
\* every leg of the full cycle depot -> stops -> depot, the leg back to the depot
\* included.
C15_StopsOnceTotalsOverFullCycle ==
    tour_pc = "returned" =>
        /\ Len(tour_result.seq) = Len(tour_stops)
        /\ \A s \in Range(tour_stops) :
              Cardinality({k \in 1..Len(tour_result.seq) : tour_result.seq[k] = s}) = 1
        /\ DepotName \notin Range(tour_result.seq)
        /\ tour_result.total_dist = _route_cost(CycleOf(tour_result.seq), tour_mats.dm)
        /\ tour_result.total_time = _route_cost(CycleOf(tour_result.seq), tour_mats.tm)

\* A call with three stops returned them in another order than it was given them.
C15_Witness ==
    /\ tour_pc = "returned"
    /\ Len(tour_stops) = 3
    /\ tour_result.seq # tour_stops
    /\ tour_result.total_time # Wide(0)

(***************************************************************************)
(* Properties of calls of reorder_vehicle_with_google (SpecReorder).       *)
(***************************************************************************)

\* C16: a call with an empty stop list returns ([], 0, 0), creates no client, makes
\* no external call, and leaves the Matrix Provider's cache and the rate limiter as
\* they were.
C16_EmptyStopsTouchNothing ==
    [][(ro_calls' = ro_calls + 1 /\ ro_last'.stops = <<>>) =>
          /\ ro_last'.result = [seq |-> <<>>, total_dist |-> Wide(0), total_time |-> Wide(0)]
          /\ ro_last'.ext_calls = 0
          /\ ro_clients' = ro_clients
          /\ ro_ext_calls' = ro_ext_calls
          /\ UNCHANGED <<mapsVars, limiterVars>>]_vars

\* A call with an empty stop list was made after a call that went to the service.
C16_Witness ==
    /\ ro_last.outcome = "returned"
    /\ ro_last.stops = <<>>
    /\ ro_calls >= 2
    /\ ro_ext_calls >= 1

\* C17: a call with the depot and stops of an earlier call issues no external
\* distance-matrix call, the matrices coming from the Matrix Provider's cache.
C17_RepeatedReorderIssuesNoCall ==
    (ro_last.outcome = "returned" /\ ro_last.repeated) => ro_last.ext_calls = 0

(***************************************************************************)
(* Force refresh of the Matrix Provider (SpecMaps).                        *)
(***************************************************************************)

\* The cache record a returned result is stored as.
PayloadOf(result) ==
    [distance_matrix |-> ToList(result.dm, Len(result.locations)),
     time_matrix |-> ToList(result.tm, Len(result.locations)),
     locations |-> result.locations]

\* C18: with FORCE_REFRESH on, a call that returns never returns what a cache
\* record held: it computes the matrices anew, with one external call for each
\* tile, and the cache record of its key then holds the new result.
C18_ForceRefreshRecomputes ==
    (force_refresh /\ last_call.outcome = "returned") =>
        /\ last_call.fresh
        /\ last_call.external_calls =
              Len(TilePairs(Len(last_call.result.locations), TILE_SIZE))
        /\ _key(last_call.deliveries, last_call.depots) \in DOMAIN cache
        /\ cache[_key(last_call.deliveries, last_call.depots)] = PayloadOf(last_call.result)

\* With FORCE_REFRESH on, a second call for two locations returned other matrices
\* than the first.
C18_Witness ==
    /\ force_refresh
    /\ last_call.outcome = "returned"
    /\ last_call.previous # None
    /\ Len(last_call.result.locations) = 2
    /\ last_call.result.tm # last_call.previous.tm
    /\ last_call.external_calls = 1

(***************************************************************************)
(* Properties of concurrent requesters of one cache key (SpecConcurrent).  *)
(***************************************************************************)

\* C19: when several requesters ask for the same key and no cache record exists,
\* at most one sequence of external tile calls is issued for the key.
C19_OneBuildPerKey == cc_ext_calls <= TilesPerBuild

\* C20: at every instant the file at the cache path is a complete record written
\* by a single writer, and no _load_cache reads a partly written or mixed record.
C20_CacheFileAlwaysWholeRecord ==
    /\ cc_path # 0 => WholeRecord(cc_files[cc_path])
    /\ \A t \in Requesters : cc_loaded[t] \notin {"broken", "mixed"}

(***************************************************************************)
(* Properties of the vehicles of a run (SpecRoute).                        *)
(***************************************************************************)

\* C21: when the matrix request of a vehicle raises during the run, the run's
\* outcome names that vehicle as failed, and a run that saves routes saves one for
\* every vehicle.
C21_FailedVehicleIsReported ==
    /\ rt_pc = "aborted" => rt_next \in rt_report.failed
    /\ rt_report.outcome = "returned" => DOMAIN rt_report.routes = DOMAIN prelim_routes

\* The start positions the Stop Assigner is given, one for each vehicle.
StartCoords == CoordsOf(bulk_geocode(depot_addrs))

\* C22: for m input depots, depots that share an address included, there are
\* exactly m vehicles 0..m-1 with one route each, and the depot address handed to
\* the Tour Optimizer for vehicle v is the address of the depot whose coordinate was
\* the start position of vehicle v in the Stop Assigner.
C22_OneVehiclePerDepot ==
    /\ rt_pc \in {"assigned", "done"} =>
          /\ DOMAIN prelim_routes = 0..(Len(depot_addrs) - 1)
          /\ \A v \in DOMAIN prelim_routes : Geocode(depot_addrs[v + 1]) = StartCoords[v + 1]
    /\ rt_pc = "done" => DOMAIN final_routes = 0..(Len(depot_addrs) - 1)

(***************************************************************************)
(* Properties of the tour construction (SpecTour).                         *)
(***************************************************************************)

\* The order with the stops at places a..b (counted from 1) reversed.
WithReversed(order, a, b) ==
    SubSeq(order, 1, a - 1) \o Reverse(SubSeq(order, a, b)) \o SubSeq(order, b + 1, Len(order))

\* C23: when _two_opt returns before its pass limit, no reversal of a contiguous
\* run of stops between the two depot places makes the round trip strictly
\* shorter, runs that hold the last stop and tours of fewer than three stops
\* included.
C23_TwoOptReturnsLocalOptimum ==
    (tour_pc \in {"ordered", "returned"} /\ passes_done < REORDER_MAX_PASSES) =>
        \A a, b \in 2..(Len(opt.best) - 1) :
            a < b => ~WideLess(TourCost(WithReversed(opt.best, a, b)), TourCost(opt.best))

\* C24: the nearest-neighbor order starts and ends with node 0, holds each node
\* 1..n-1 exactly once in between, and each node after the start is an unvisited
\* node of least duration from the node before it; for one location it is [0, 0].
C24_NearestNeighborOrder ==
    /\ _nearest_neighbor_order([i \in {0} |-> [j \in {0} |-> 0]], 1) = <<0, 0>>
    /\ tour_pc \in {"two_opt", "ordered", "returned"} =>
          LET n == Len(tour_stops) + 1
              o == nn_order
          IN  /\ Len(o) = n + 1
              /\ o[1] = 0
              /\ o[n + 1] = 0
              /\ \A v \in 1..(n - 1) : Cardinality({k \in 2..n : o[k] = v}) = 1
              /\ \A k \in 2..n :
                    \A u \in (1..(n - 1)) \ {o[h] : h \in 2..(k - 1)} :
                        tour_mats.tm[o[k - 1]][o[k]] <= tour_mats.tm[o[k - 1]][u]

\* With three stops, the nearest-neighbor order is not the order of the input,
\* and its first step had a strictly nearer and a strictly farther candidate.
C24_Witness ==
    /\ tour_pc = "ordered"
    /\ Len(tour_stops) = 3
    /\ nn_order # <<0, 1, 2, 3, 0>>
    /\ \E u \in 1..3 : tour_mats.tm[0][nn_order[2]] < tour_mats.tm[0][u]

(***************************************************************************)
(* Properties of the two phases of the assigner (SpecAssign).              *)
(***************************************************************************)
AbsDiff(a, b) == IF a >= b THEN a - b ELSE b - a

\* Where a vehicle stands in phase 1: at its depot, or at the stop it picked last.
Phase1Position(vid) ==
    IF as_routes[vid] = <<>> THEN as_depots[vid + 1]
    ELSE as_routes[vid][Len(as_routes[vid])][2]

\* C25: with two or more depots, the k-th phase-1 pick is made by vehicle k mod m
\* and is a stop of the remaining pool nearest to where that vehicle stands, which
\* is its depot before its first pick and its last picked stop afterwards; the
\* phase-1 route sizes of any two vehicles differ by at most 1.
C25_Phase1RoundRobinNearest ==
    /\ [](as_pc # "idle" =>
            \A v, w \in DOMAIN as_routes :
                /\ AbsDiff(Len(as_routes[v]), Len(as_routes[w])) <= 1
                /\ as_pc = "phase1" => as_pos[v] = Phase1Position(v))
    /\ [][Len(as_picks') = Len(as_picks) + 1 =>
            LET k == Len(as_picks)
                vid == k % Len(as_depots)
                picked == as_routes'[vid][Len(as_routes'[vid])]
            IN  /\ as_routes' = [as_routes EXCEPT ![vid] = Append(@, picked)]
                /\ picked \in Range(as_pool)
                /\ picked[1] = as_picks'[k + 1]
                /\ \A r \in Range(as_pool) :
                       haversine(Phase1Position(vid), picked[2])
                           <= haversine(Phase1Position(vid), r[2])]_vars

\* Phase 1 is over after four picks, two by each of two vehicles, and vehicle 0's
\* second pick was nearest to its first stop although the stop left in the pool
\* was nearer to its depot.
C25_Witness ==
    /\ as_pc = "phase2"
    /\ Len(as_depots) = 2
    /\ Len(as_picks) = 4
    /\ Len(as_routes[0]) = 2
    /\ Len(as_routes[1]) = 2
    /\ haversine(as_depots[1], as_routes[1][2][2])
           < haversine(as_depots[1], as_routes[0][2][2])

\* The stops phase 2 has re-assigned so far, in the order it took them.
Reassigned ==
    LET flat == Flatten(Len(as_depots), as_routes, 0)
    IN  AddressesOf(SubSeq(flat, 1, Len(flat) - Len(as_flat)))

\* Where a vehicle's new route ends in phase 2: its depot, or the last stop given to it.
Phase2End(vid) ==
    IF as_new_routes[vid] = <<>> THEN as_depots[vid + 1]
    ELSE as_new_routes[vid][Len(as_new_routes[vid])][2]

\* C26: phase 2 re-assigns the stops one at a time in the order phase 1 picked them
\* (a stop picked earlier is re-assigned before a stop picked later), each to the
\* vehicle whose current tour end is nearest, the lowest vehicle index among ties.
C26_Phase2FollowsPickOrder ==
    /\ [](as_pc \in {"phase2", "returned"} =>
            /\ Reassigned = SubSeq(as_picks, 1, Len(Reassigned))
            /\ \A v \in DOMAIN as_ends : as_ends[v] = Phase2End(v))
    /\ [][(as_pc = "phase2" /\ as_flat' # as_flat) =>
            \E v \in DOMAIN as_new_routes :
                /\ as_new_routes' = [as_new_routes EXCEPT ![v] = Append(@, Head(as_flat))]
                /\ \A w \in DOMAIN as_new_routes :
                       /\ haversine(Phase2End(v), Head(as_flat)[2])
                              <= haversine(Phase2End(w), Head(as_flat)[2])
                       /\ w < v => haversine(Phase2End(v), Head(as_flat)[2])
                                       < haversine(Phase2End(w), Head(as_flat)[2])]_vars

\* The part of C26 about the vehicle chosen, which the code keeps.
C26_NearestEndLowestIndex ==
    [][(as_pc = "phase2" /\ as_flat' # as_flat) =>
          \E v \in DOMAIN as_new_routes :
              /\ as_new_routes' = [as_new_routes EXCEPT ![v] = Append(@, Head(as_flat))]
              /\ \A w \in DOMAIN as_new_routes :
                     /\ haversine(Phase2End(v), Head(as_flat)[2])
                            <= haversine(Phase2End(w), Head(as_flat)[2])
                     /\ w < v => haversine(Phase2End(v), Head(as_flat)[2])
                                     < haversine(Phase2End(w), Head(as_flat)[2])]_vars

(***************************************************************************)
(* Properties of one Geocoder (SpecGeocoder).                              *)
(***************************************************************************)
\* C27 as stated: over any sequence of geocode_address calls on one Geocoder the
\* external service is called at most once for each distinct address.
C27_OneExternalCallPerAddress ==
    \A a \in DOMAIN gc_ext : gc_ext[a] <= 1

\* C27, amended: a call for an address in the cache makes no external call and
\* returns the cached coordinate; a miss makes one external call, and when the
\* service resolves the address the entry is in memory and in the cache file
\* before the call returns; so the external service is called at most once for
\* each address beyond the calls that raised for it, and never again once the
\* address is in the cache.
C27_OneExternalCallPerResolvedAddress ==
    /\ [](\A a \in DOMAIN gc_ext : gc_ext[a] <= gc_raised[a] + 1)
    /\ [](gc_calls > 0 /\ gc_last.outcome = "miss" =>
            /\ <<gc_last.address, gc_last.result[1]>> \in Range(gc_cache)
            /\ <<gc_last.address, gc_last.result[1]>> \in Range(gc_file))
    /\ [][gc_calls' = gc_calls + 1 =>
            LET a == gc_last'.address
            IN  IF CacheHas(gc_cache, a)
                THEN /\ gc_ext' = gc_ext
                     /\ gc_last'.outcome = "hit"
                     /\ <<a, gc_last'.result[1]>> \in Range(gc_cache)
                     /\ gc_cache' = gc_cache
                ELSE /\ gc_ext' = [gc_ext EXCEPT ![a] = @ + 1]
                     /\ gc_last'.outcome \in {"miss", "raised"}]_vars

\* An address was resolved on a miss and asked for again, after a call for another
\* address had raised twice.
C27_Witness ==
    /\ gc_calls = 4
    /\ gc_last.outcome = "hit"
    /\ gc_ext[gc_last.address] = 1
    /\ \E b \in DOMAIN gc_ext : gc_raised[b] = 2

(***************************************************************************)
(* Properties of the tiled builders on missing data (SpecShort).           *)
(***************************************************************************)
\* The response as the builder read it.
ShortResp == ShortResponse(distance_matrix(sh_answers, 0, sh_n, 0, sh_n), sh_shape)

\* The response supplied no element for the cell.
NoElementFor(i, j) == ~Covers(ShortResp, 0, 0, i, j)

\* C28: in the matrices MapsService._build_full_matrix returns, an off-diagonal cell
\* for which the response supplied no element (a missing row or a short row), or
\* an "OK" element without a distance or duration value, holds 10**9 and not 0.
C28_MissingDataIsSentinel ==
    sh_maps # NoMats =>
        \A i, j \in 0..(sh_n - 1) :
            i # j =>
                /\ NoElementFor(i, j) =>
                      sh_maps.dm[i][j] = 10 ^ 9 /\ sh_maps.tm[i][j] = 10 ^ 9
                /\ (~NoElementFor(i, j) /\ sh_answers[i][j].status = "OK") =>
                      /\ sh_answers[i][j].distance = NoValue => sh_maps.dm[i][j] = 10 ^ 9
                      /\ sh_answers[i][j].duration = NoValue => sh_maps.tm[i][j] = 10 ^ 9

\* What C28 asks of _build_full_matrix holds of the chunked builder.
ChunkedMissingDataIsSentinel ==
    sh_chunked # NoMats =>
        \A i, j \in 0..(sh_n - 1) :
            i # j =>
                /\ NoElementFor(i, j) =>
                      sh_chunked.dm[i][j] = 10 ^ 9 /\ sh_chunked.tm[i][j] = 10 ^ 9
                /\ (~NoElementFor(i, j) /\ sh_answers[i][j].status = "OK") =>
                      /\ sh_answers[i][j].distance = NoValue => sh_chunked.dm[i][j] = 10 ^ 9
                      /\ sh_answers[i][j].duration = NoValue => sh_chunked.tm[i][j] = 10 ^ 9

(***************************************************************************)
(* Properties of route_manager.py (SpecManager).                           *)
(***************************************************************************)
\* The pair (i, j) is a leg the service reported "OK".
RealLeg(i, j) == i # j /\ rm_answers[i][j].status = "OK"

\* C29: a pair (i, j), i # j, reported with a status other than "OK" stands in both
\* matrices of _build_distance_time_matrices as a cost larger than that of any
\* real leg, so that _optimize_route never takes it for cheaper than a real one.
C29_UnreachableLegIsDearest ==
    rm_pc \in {"built", "optimized"} =>
        \A i, j \in 0..(rm_n - 1) :
            (i # j /\ rm_answers[i][j].status # "OK") =>
                \A k, l \in 0..(rm_n - 1) :
                    RealLeg(k, l) =>
                        /\ rm_mats.dm[i][j][1] > rm_mats.dm[k][l][1]
                        /\ rm_mats.tm[i][j][1] > rm_mats.tm[k][l][1]

\* The round-trip time of an order, in sixtieths of a minute.
RECURSIVE ManagerRoundTrip(_)
ManagerRoundTrip(order) ==
    IF Len(order) < 2 THEN 0
    ELSE rm_mats.tm[order[1]][order[2]][1] + ManagerRoundTrip(Tail(order))

\* C30: for every time matrix, asymmetric ones included, each reversal _two_opt
\* applies strictly reduces the round-trip time of the order, the order returned
\* has no larger round-trip time than the order given, and it keeps the depot at
\* the first and the last position with every stop exactly once in between.
C30_ManagerReversalsReduceRoundTrip ==
    rm_pc = "optimized" =>
        LET final == rm_trace[Len(rm_trace)]
        IN  /\ \A k \in 1..(Len(rm_trace) - 1) :
                   ManagerRoundTrip(rm_trace[k + 1]) < ManagerRoundTrip(rm_trace[k])
            /\ ManagerRoundTrip(final) <= ManagerRoundTrip(rm_trace[1])
            /\ Len(final) = rm_n + 1
            /\ final[1] = 0
            /\ final[rm_n + 1] = 0
            /\ \A stop \in 1..(rm_n - 1) :
                   Cardinality({k \in 2..rm_n : final[k] = stop}) = 1

\* The part of C30 about the depot and the stops, which the code keeps.
ManagerOrderKeepsDepotAndStops ==
    rm_pc = "optimized" =>
        LET final == rm_trace[Len(rm_trace)]
        IN  /\ Len(final) = rm_n + 1
            /\ final[1] = 0
            /\ final[rm_n + 1] = 0
            /\ \A stop \in 1..(rm_n - 1) :
                   Cardinality({k \in 2..rm_n : final[k] = stop}) = 1
            /\ rm_result.seq = SubSeq(final, 2, rm_n)

\* C30 on reports without an unreachable pair (used to find a plain failing input).
ManagerReversalsReduceOnRealLegs ==
    (rm_pc = "optimized" /\ \A i, j \in 0..(rm_n - 1) : rm_answers[i][j].status = "OK") =>
        \A k \in 1..(Len(rm_trace) - 1) :
            ManagerRoundTrip(rm_trace[k + 1]) < ManagerRoundTrip(rm_trace[k])

============================================================================
